---- MODULE Spec2Model ----
(***************************************************************************)
(* Model of the messenger backend (backend/main.py): the refresh-token     *)
(* store behind /api/register, /api/login, /api/refresh and /api/logout,   *)
(* and the per-user      *)
(* WebSocket registry with the ws_user connection handler.                 *)
(***************************************************************************)
EXTENDS Integers, Sequences, FiniteSets, TLC

(***************************************************************************)
(* Bounds of the model.                                                    *)
(***************************************************************************)
\* how many refresh tokens are minted in one behaviour
MaxIds == 3
\* the clock (time.time()) runs from 0 to MaxTime
MaxTime == 1

(***************************************************************************)
(* Configuration values of the program (environment-overridable; the model *)
(* runs the program with these small settings).                            *)
(***************************************************************************)
REFRESH_TTL_SECONDS == 0

\* SQL NULL / the empty cookie string
NULL == 0

Usernames == {"alice", "bob"}
\* request-handling threads of the server that can be inside /api/refresh
Workers == {"w1", "w2"}
\* a refresh-token string no call of secrets.token_urlsafe() ever returns
BogusToken == MaxIds + 1

VARIABLES
    now,             \* time.time(), in seconds
    users,           \* table users: the registered usernames
    refresh_tokens,  \* table refresh_tokens: token -> row
    nextId,          \* number of refresh tokens secrets.token_urlsafe() has minted
    rpc,             \* per worker: position inside refresh_tokens()
    rrow,            \* per worker: the cookie and the row its SELECT returned
    mono,            \* time.monotonic()
    chat_members,    \* table chat_members: chat id -> usernames
    messages,        \* table messages: message id -> chat id
    USER_SOCKETS,    \* dict username -> set of WebSocket objects
    wtok,            \* per connection: the token query parameter of its handshake
    wpc,             \* per connection: position of its ws_user() call
    wuser,           \* per connection: username of ws_user()
    wcode,           \* per connection: the code ws_user() closed it with (0: none)
    alive,           \* per connection: the transport is open in both directions
    sent,            \* per connection: the events delivered to the client
    replayq,         \* per connection: message ids still to replay
    task,            \* per connection: the broadcast its handler is inside
    last_pong_at,    \* per connection: last_pong_at of ws_user()
    hbst,            \* per connection: state of its heartbeat_loop() task
    hbdue,           \* per connection: when its asyncio.sleep() ends
    message_hidden,  \* table message_hidden: pairs <<message id, username>>
    hpc,             \* per request: position of its HTTP handler
    hcall,           \* per request: the arguments of its broadcast_users() call
    htask,           \* per request: the broadcast its handler is inside
    hlog,            \* per request: the ws_send_safe() calls of its broadcast
    hwait,           \* the requests suspended in a send, in the order they arrived
    replay_since,    \* per connection: since_message_id of its replay, 0 without one
    message_delivered, \* table message_delivered: rows of message id, username, delivered_at
    RATE_BUCKETS,    \* dict bucket -> the timestamps of its accepted calls
    rl_log,          \* the calls of check_rate_limit so far: bucket, time, verdict
    limit_raw,       \* the argument of the last normalize_messages_limit() call
    page_limit,      \* what that call returned
    environ,         \* os.environ when main.py was imported
    boot,            \* how the import of main.py ended
    message_cols,    \* table messages: message id -> its other columns
    since_call,      \* the last call of get_user_messages_since and its rows
    chats,           \* table chats: chat id -> type and created_by
    member_role,     \* table chat_members: <<chat id, username>> -> role
    chat_reads,      \* table chat_reads: <<chat id, username>> -> last_read_id
    hnext            \* per request: the broadcast its handler makes after the current one

authVars == <<users, refresh_tokens, nextId, rpc, rrow>>

\* the state the handlers of the WebSocket frames and of the requests that
\* broadcast leave alone unless said otherwise
\* the state only the requests on chats, read markers and replay queries use
moreVars == <<since_call, chats, member_role, chat_reads, hnext>>

extVars == <<message_delivered, RATE_BUCKETS, rl_log, limit_raw, page_limit,
            environ, boot, message_cols, moreVars>>

pushVars == <<message_hidden, hpc, hcall, htask, hlog, hwait, replay_since, extVars>>

wsVars == <<mono, chat_members, messages, USER_SOCKETS, wtok, wpc, wuser, wcode,
            alive, sent, replayq, task, last_pong_at, hbst, hbdue, pushVars>>

vars == <<now, authVars, wsVars>>

(***************************************************************************)
(* Refresh-token store: the SQL statements                                 *)
(***************************************************************************)
\* INSERT INTO refresh_tokens(...) VALUES (token, username, session_id,
\*   now, now + REFRESH_TTL_SECONDS, FALSE, NULL, FALSE)
InsertRefreshToken(store, token, username, ts, session_id) ==
    [t \in DOMAIN store \cup {token} |->
        IF t = token
        THEN [username |-> username, session_id |-> session_id,
              expires_at |-> ts + REFRESH_TTL_SECONDS, revoked |-> FALSE,
              replaced_by |-> NULL, compromised |-> FALSE]
        ELSE store[t]]

\* mutant: the cascade revokes but forgets compromised=TRUE
UpdateReuseRevokeOnly(store, username) ==
    [t \in DOMAIN store |->
        IF store[t].username = username /\ ~store[t].revoked
        THEN [store[t] EXCEPT !.revoked = TRUE]
        ELSE store[t]]

\* mutant: the cascade without its revoked=FALSE filter
UpdateReuseAllRows(store, username) ==
    [t \in DOMAIN store |->
        IF store[t].username = username
        THEN [store[t] EXCEPT !.revoked = TRUE, !.compromised = TRUE]
        ELSE store[t]]

\* UPDATE refresh_tokens SET revoked=TRUE, compromised=TRUE
\*   WHERE username=%s AND revoked=FALSE
UpdateReuse(store, username) ==
    [t \in DOMAIN store |->
        IF store[t].username = username /\ ~store[t].revoked
        THEN [store[t] EXCEPT !.revoked = TRUE, !.compromised = TRUE]
        ELSE store[t]]

\* mutant: the rotation revokes the presented row but does not link it
UpdateRotateNoLink(store, rt, new_rt) ==
    [t \in DOMAIN store |->
        IF t = rt THEN [store[t] EXCEPT !.revoked = TRUE] ELSE store[t]]

\* UPDATE refresh_tokens SET revoked=TRUE, replaced_by=%s WHERE token=%s
UpdateRotate(store, rt, new_rt) ==
    [t \in DOMAIN store |->
        IF t = rt
        THEN [store[t] EXCEPT !.revoked = TRUE, !.replaced_by = new_rt]
        ELSE store[t]]

\* mutant: logout revokes every row of the presented token's user
UpdateLogoutWholeUser(store, rt) ==
    [t \in DOMAIN store |->
        IF rt \in DOMAIN store /\ store[t].username = store[rt].username
        THEN [store[t] EXCEPT !.revoked = TRUE]
        ELSE store[t]]

\* UPDATE refresh_tokens SET revoked=TRUE WHERE token=%s
UpdateLogout(store, rt) ==
    [t \in DOMAIN store |->
        IF t = rt THEN [store[t] EXCEPT !.revoked = TRUE] ELSE store[t]]

\* the rows that are not revoked
Active(store) == {t \in DOMAIN store : ~store[t].revoked}

\* what a client can send as the refresh_token cookie
Cookies == DOMAIN refresh_tokens \cup {BogusToken, NULL}

NoRow == [rt |-> NULL, username |-> "", session_id |-> NULL]

\* issue_refresh_token(username) with no session_id: a new session id and a
\* new token are drawn, one row is inserted and committed.  Yields the store.
\* The token and the session id are strings of different lengths (48 and 24
\* characters); both are written here as the number of the token.
IssueRefreshToken(store, username, ts, n) ==
    InsertRefreshToken(store, n + 1, username, ts, n + 1)

\* mutant: the expiry test is left out
RowInvalidNoExpiry(store, rt, ts) == rt \notin DOMAIN store

\* not row or int(row["expires_at"]) < now_ts()
RowInvalid(store, rt, ts) ==
    rt \notin DOMAIN store \/ store[rt].expires_at < ts

\* mutant: every revoked row counts as rotated
RowReplacedAlways(store, rt) == TRUE

\* row.get("replaced_by") is truthy
RowReplaced(store, rt) == store[rt].replaced_by # NULL

(***************************************************************************)
(* What each handler answers, from the state it reads.  limited stands for *)
(* check_auth_rate_limit raising RateLimitExceeded: the limiter's verdict  *)
(* depends only on RATE_BUCKETS, which nothing else in these handlers      *)
(* reads, so the verdict is an input of the request here.                  *)
(***************************************************************************)
\* register(): valid = the username matches USERNAME_RE and the password has
\* 6 characters or more
RegisterOutcome(u, valid, limited) ==
    IF limited THEN "429 auth_rate_limited"
    ELSE IF ~valid THEN "400 bad username or password"
    ELSE IF u \in users THEN "400 username taken"
    ELSE "200 ok"

\* login(): pwOk = verify_password accepted the password
LoginOutcome(u, pwOk, limited) ==
    IF limited THEN "429 auth_rate_limited"
    ELSE IF u \notin users \/ ~pwOk THEN "401 Invalid credentials"
    ELSE "200 ok"

\* refresh_tokens() up to the end of the checks on the row its SELECT returns:
\* the error it raises there, or the branch it goes on with
RefreshOutcome(store, rt, ts, limited) ==
    IF limited THEN "429 auth_rate_limited"
    ELSE IF rt = NULL THEN "400 refresh_token required"
    ELSE IF RowInvalid(store, rt, ts) THEN "401 Invalid refresh token"
    ELSE IF store[rt].revoked
         THEN IF RowReplaced(store, rt)
              THEN "reuse"     \* ends in 401 Refresh token reuse detected
              ELSE "401 Invalid refresh token"
    ELSE "rotate"              \* ends in 200 with the new cookie

(***************************************************************************)
(* Init                                                                    *)
(***************************************************************************)
InitAuth ==
    /\ now = 0
    /\ users = {}
    /\ refresh_tokens = <<>>
    /\ nextId = 0
    /\ rpc = [p \in Workers |-> "idle"]
    /\ rrow = [p \in Workers |-> NoRow]

(***************************************************************************)
(* Actions.  A request that a handler refuses (429, 400, 401 before any    *)
(* write) changes no variable: it is a stuttering step, and the action of  *)
(* the handler is the request that goes on to write.                       *)
(***************************************************************************)
\* the clock advances
Tick ==
    /\ now < MaxTime
    /\ now' = now + 1
    /\ UNCHANGED <<users, refresh_tokens, nextId, rpc, rrow>>
    /\ UNCHANGED wsVars

\* POST /api/register
Register(u, valid, limited) ==
    /\ RegisterOutcome(u, valid, limited) = "200 ok"
    /\ nextId + 1 <= MaxIds
    /\ users' = users \cup {u}
    /\ refresh_tokens' = IssueRefreshToken(refresh_tokens, u, now, nextId)
    /\ nextId' = nextId + 1
    /\ UNCHANGED <<now, rpc, rrow>>
    /\ UNCHANGED wsVars

\* POST /api/login
Login(u, pwOk, limited) ==
    /\ LoginOutcome(u, pwOk, limited) = "200 ok"
    /\ nextId + 1 <= MaxIds
    /\ refresh_tokens' = IssueRefreshToken(refresh_tokens, u, now, nextId)
    /\ nextId' = nextId + 1
    /\ UNCHANGED <<now, users, rpc, rrow>>
    /\ UNCHANGED wsVars

\* POST /api/refresh, up to and including the SELECT and the checks on its row
RefreshBegin(p, rt, limited) ==
    /\ rpc[p] = "idle"
    /\ LET outcome == RefreshOutcome(refresh_tokens, rt, now, limited)
       IN  /\ outcome \in {"reuse", "rotate"}
           /\ rpc' = [rpc EXCEPT ![p] = outcome]
           /\ rrow' = [rrow EXCEPT ![p] =
                        [rt |-> rt,
                         username |-> refresh_tokens[rt].username,
                         session_id |-> refresh_tokens[rt].session_id]]
    /\ UNCHANGED <<now, users, refresh_tokens, nextId>>
    /\ UNCHANGED wsVars

\* POST /api/refresh, reuse branch: the cascading UPDATE, commit,
\* 401 Refresh token reuse detected
RefreshReuse(p) ==
    /\ rpc[p] = "reuse"
    /\ refresh_tokens' = UpdateReuse(refresh_tokens, rrow[p].username)
    /\ rpc' = [rpc EXCEPT ![p] = "idle"]
    /\ rrow' = [rrow EXCEPT ![p] = NoRow]
    /\ UNCHANGED <<now, users, nextId>>
    /\ UNCHANGED wsVars

\* POST /api/refresh, rotation branch: INSERT the new row, UPDATE the presented
\* one, commit, 200 with the new cookie
RefreshRotate(p) ==
    /\ rpc[p] = "rotate"
    /\ nextId + 1 <= MaxIds
    /\ refresh_tokens' =
         UpdateRotate(
           InsertRefreshToken(refresh_tokens, nextId + 1, rrow[p].username,
                              now, rrow[p].session_id),
           rrow[p].rt, nextId + 1)
    /\ nextId' = nextId + 1
    /\ rpc' = [rpc EXCEPT ![p] = "idle"]
    /\ rrow' = [rrow EXCEPT ![p] = NoRow]
    /\ UNCHANGED <<now, users>>
    /\ UNCHANGED wsVars

\* POST /api/logout: the store it leaves
LogoutStore(store, rt) ==
    IF rt # NULL THEN UpdateLogout(store, rt) ELSE store

\* POST /api/logout
Logout(rt) ==
    /\ refresh_tokens' = LogoutStore(refresh_tokens, rt)
    /\ UNCHANGED <<now, users, nextId, rpc, rrow>>
    /\ UNCHANGED wsVars

NextAuth ==
    \/ Tick
    \/ \E u \in Usernames, valid \in BOOLEAN, limited \in BOOLEAN :
          Register(u, valid, limited)
    \/ \E u \in Usernames, pwOk \in BOOLEAN, limited \in BOOLEAN :
          Login(u, pwOk, limited)
    \/ \E p \in Workers, rt \in Cookies, limited \in BOOLEAN :
          RefreshBegin(p, rt, limited)
    \/ \E p \in Workers : RefreshReuse(p)
    \/ \E p \in Workers : RefreshRotate(p)
    \/ \E rt \in Cookies : Logout(rt)

(***************************************************************************)
(* Realtime: the global WebSocket per user                                 *)
(***************************************************************************)
\* the WebSocket objects of one behaviour
Conns == {"c1", "c2"}
Chats == {"g"}

\* how many events one client is sent in one behaviour
MaxSent == 1

\* configuration values, in the model's time unit
WS_HEARTBEAT_INTERVAL_SECONDS == 1
WS_HEARTBEAT_TIMEOUT_SECONDS == 0

\* LIMIT of get_user_messages_since
ReplayLimit == 1000

\* the token query parameter of a handshake: absent or empty, without two
\* dots, with a character outside ASCII, with a wrong signature, or signed by
\* jwt_sign for sub with expiry exp
AccessTokens ==
    {[form |-> f, sub |-> "", exp |-> 0] :
        f \in {"missing", "nodots", "nonascii", "badsig"}}
    \cup {[form |-> "signed", sub |-> u, exp |-> e] :
            u \in Usernames, e \in {now - 1, now + 1}}

\* the since query parameter of a handshake
SinceParams ==
    {[kind |-> "absent", val |-> 0], [kind |-> "junk", val |-> 0]}
    \cup {[kind |-> "int", val |-> v] : v \in -1 .. 2}

\* jwt_verify(token): "ok", the HTTPException it raises, or "raise" for the
\* UnicodeEncodeError of msg.encode("ascii") and the TypeError of
\* hmac.compare_digest on a token with a character outside ASCII
JwtVerify(tok, ts) ==
    IF tok.form = "nodots" THEN "401 Invalid token"
    ELSE IF tok.form = "nonascii" THEN "raise"
    ELSE IF tok.form = "badsig" THEN "401 Bad signature"
    ELSE IF tok.exp < ts THEN "401 Token expired"
    ELSE "ok"

\* int(ws.query_params.get("since") or 0), 0 on ValueError
ParseSince(since) == IF since.kind = "int" THEN since.val ELSE 0

\* USER_SOCKETS.get(u, set())
SocketsOf(sockets, u) == IF u \in DOMAIN sockets THEN sockets[u] ELSE {}

\* _ws_add
WsAdd(sockets, u, ws) ==
    [x \in DOMAIN sockets \cup {u} |->
        IF x = u THEN SocketsOf(sockets, u) \cup {ws} ELSE sockets[x]]

\* mutant: _ws_remove without the pop of the emptied entry
WsRemoveNoPop(sockets, u, ws) ==
    IF u \in DOMAIN sockets
    THEN [sockets EXCEPT ![u] = sockets[u] \ {ws}]
    ELSE sockets

\* _ws_remove
WsRemove(sockets, u, ws) ==
    IF u \in DOMAIN sockets
    THEN IF sockets[u] \ {ws} = {}
         THEN [x \in DOMAIN sockets \ {u} |-> sockets[x]]
         ELSE [sockets EXCEPT ![u] = sockets[u] \ {ws}]
    ELSE sockets

\* active_connections_count
active_connections_count(u) == Cardinality(SocketsOf(USER_SOCKETS, u))

\* is_member
is_member(chat_id, u) ==
    chat_id \in DOMAIN chat_members /\ u \in chat_members[chat_id]

\* the orders in which a query without ORDER BY can return the set S
OrdersOf(S) ==
    {q \in [1 .. Cardinality(S) -> S] : \A i, j \in DOMAIN q : q[i] = q[j] => i = j}

\* mutant: every user instead of the members of the chat
ListEveryUser(chat_id) == OrdersOf(Usernames)

\* list_members: the usernames of the chat, in any order
list_members(chat_id) ==
    IF chat_id \in DOMAIN chat_members THEN OrdersOf(chat_members[chat_id])
    ELSE {<<>>}

Min(a, b) == IF a <= b THEN a ELSE b

\* mutant: the replay query without its join on message_hidden
MessagesSinceWithHidden(u, since_message_id, limit) ==
    IF since_message_id <= 0 THEN <<>>
    ELSE LET keep(m) == m > since_message_id /\ is_member(messages[m], u)
             ids == SelectSeq([m \in DOMAIN messages |-> m], keep)
         IN  SubSeq(ids, 1, Min(Len(ids), limit))

\* mutant: the query with ORDER BY m.id DESC, which keeps the newest rows
GetUserMessagesSinceNewest(u, since_message_id, limit) ==
    IF since_message_id <= 0 THEN <<>>
    ELSE LET keep(m) == /\ m > since_message_id
                        /\ is_member(messages[m], u)
                        /\ <<m, u>> \notin message_hidden
             ids == SelectSeq([m \in DOMAIN messages |-> m], keep)
         IN  SubSeq(ids, Len(ids) - Min(Len(ids), limit) + 1, Len(ids))

\* get_user_messages_since: the ids above the watermark of the messages of
\* the user's chats that the user has not hidden, ascending, at most limit
\* of them
get_user_messages_since(u, since_message_id, limit) ==
    IF since_message_id <= 0 THEN <<>>
    ELSE LET keep(m) == /\ m > since_message_id
                        /\ is_member(messages[m], u)
                        /\ <<m, u>> \notin message_hidden
             ids == SelectSeq([m \in DOMAIN messages |-> m], keep)
         IN  SubSeq(ids, 1, Min(Len(ids), limit))

Event(type, chat_id, username, id) ==
    [type |-> type, chat_id |-> chat_id, username |-> username, id |-> id]

NoTask == [ev |-> Event("", "", "", 0), rest |-> <<>>, sent_to |-> {}, snap |-> {}]

\* mutant: broadcast_users without the test u in sent_to
RECURSIVE BroadcastFromNoDedupe(_, _, _, _)
BroadcastFromNoDedupe(ev, rest, sent_to, sockets) ==
    IF rest = <<>> THEN NoTask
    ELSE LET u == Head(rest)
         IN  IF SocketsOf(sockets, u) = {}
             THEN BroadcastFromNoDedupe(ev, Tail(rest), sent_to \cup {u}, sockets)
             ELSE [ev |-> ev, rest |-> Tail(rest), sent_to |-> sent_to \cup {u},
                   snap |-> SocketsOf(sockets, u)]

\* broadcast_users from the head of the username list: users already in
\* sent_to and users without sockets take no send; the broadcast stands at
\* the first user with sockets, holding list(USER_SOCKETS.get(u, set()))
RECURSIVE BroadcastFrom(_, _, _, _)
BroadcastFrom(ev, rest, sent_to, sockets) ==
    IF rest = <<>> THEN NoTask
    ELSE LET u == Head(rest)
         IN  IF u \in sent_to
             THEN BroadcastFrom(ev, Tail(rest), sent_to, sockets)
             ELSE IF SocketsOf(sockets, u) = {}
             THEN BroadcastFrom(ev, Tail(rest), sent_to \cup {u}, sockets)
             ELSE [ev |-> ev, rest |-> Tail(rest), sent_to |-> sent_to \cup {u},
                   snap |-> SocketsOf(sockets, u)]

\* ws_send_safe: the event reaches the client if the transport is open; the
\* exception of send_text on a closed one is swallowed
WsSendSafe(box, ws, ev) ==
    IF alive[ws] THEN [box EXCEPT ![ws] = Append(box[ws], ev)] ELSE box

\* the model sends a client at most MaxSent events
Room(ws) == alive[ws] => Len(sent[ws]) < MaxSent

\* the frames a client sends: text that is not JSON, JSON that is not an
\* object ([], 5, null), pong, typing, an object of an unknown or missing
\* type, and an object of a known type with an ill-typed field (delivered
\* with message_id "abc", typing with chat_id 5)
Frames ==
    {[kind |-> k, chat_id |-> ""] :
        k \in {"notjson", "nonobject", "pong", "unknown", "illtyped"}}
    \cup {[kind |-> "typing", chat_id |-> ch] : ch \in Chats \cup {""}}

\* the HTTP requests of one behaviour
Reqs == {"r1", "r2"}

\* no call of broadcast_users: its payload, its username list, and the
\* connections the registry held when it was called
NoCall == [ev |-> Event("", "", "", 0), usernames |-> <<>>, reg |-> {}, replaying |-> {}]

\* a variable of the environment: not set, or set to a value, of which the
\* model keeps the length after strip()
Unset == [set |-> FALSE, len |-> 0]
Value(n) == [set |-> TRUE, len |-> n]

\* an environment with every required variable set
BaseEnv ==
    [JWT_SECRET |-> Value(18), DATABASE_URL |-> Value(18),
     CLOUDINARY_CLOUD_NAME |-> Value(4), CLOUDINARY_API_KEY |-> Value(4),
     CLOUDINARY_API_SECRET |-> Value(4)]

\* a row of table messages as INSERT leaves it: not edited, not deleted
NewRow(sender, text) ==
    [sender |-> sender, text |-> text, is_edited |-> FALSE, edited_at |-> NULL,
     deleted_for_all |-> FALSE, deleted_at |-> NULL]

\* the other columns of the messages of the store, all sent by u
SentBy(u) == [i \in DOMAIN messages |-> NewRow(u, "a")]

\* no broadcast left to make
NoPending == [usernames |-> <<>>, ev |-> Event("", "", "", 0)]

\* the rows of chat_members: a chat and one of its members
MemberRows == {p \in (DOMAIN chat_members) \X Usernames : p[2] \in chat_members[p[1]]}

\* the creator of a chat that has members
CreatorOf(ch) == IF "alice" \in chat_members[ch] THEN "alice" ELSE "bob"

\* the chats that have members are groups, created by one of their members,
\* who is the owner; the others are plain members; nobody has read anything
InitChats ==
    /\ chats = [ch \in {c \in DOMAIN chat_members : chat_members[c] # {}} |->
                  [type |-> "group", created_by |-> CreatorOf(ch)]]
    /\ member_role = [p \in MemberRows |->
                        IF p[2] = CreatorOf(p[1]) THEN "owner" ELSE "member"]
    /\ chat_reads = [p \in MemberRows |-> 0]

\* no call of get_user_messages_since yet
NoQuery == [username |-> "", since_message_id |-> 0, limit |-> 0, rows |-> <<>>]

\* no connection of CS has been opened, no request of Reqs has arrived
InitHandlers(CS) ==
    /\ mono = 0
    /\ USER_SOCKETS = <<>>
    /\ wtok = [c \in CS |-> [form |-> "missing", sub |-> "", exp |-> 0]]
    /\ wpc = [c \in CS |-> "new"]
    /\ wuser = [c \in CS |-> ""]
    /\ wcode = [c \in CS |-> 0]
    /\ alive = [c \in CS |-> FALSE]
    /\ sent = [c \in CS |-> <<>>]
    /\ replayq = [c \in CS |-> <<>>]
    /\ task = [c \in CS |-> NoTask]
    /\ last_pong_at = [c \in CS |-> 0]
    /\ hbst = [c \in CS |-> "none"]
    /\ hbdue = [c \in CS |-> 0]
    /\ hpc = [r \in Reqs |-> "idle"]
    /\ hcall = [r \in Reqs |-> NoCall]
    /\ htask = [r \in Reqs |-> NoTask]
    /\ hlog = [r \in Reqs |-> <<>>]
    /\ hwait = <<>>
    /\ replay_since = [c \in CS |-> 0]
    /\ RATE_BUCKETS = <<>>
    /\ rl_log = <<>>
    /\ limit_raw = [kind |-> "unset", val |-> 0]
    /\ page_limit = 0
    /\ environ = BaseEnv
    /\ boot = "serving"
    /\ since_call = NoQuery
    /\ InitChats
    /\ hnext = [r \in Reqs |-> NoPending]

InitWs ==
    /\ chat_members = [ch \in Chats |-> {"alice"}]
    /\ messages = <<"g", "g">>
    /\ message_hidden = {}
    /\ message_delivered = {}
    /\ message_cols = SentBy("alice")
    /\ InitHandlers(Conns)

\* time.monotonic() advances
MonoTick ==
    /\ mono < MaxTime
    /\ mono' = mono + 1
    /\ UNCHANGED <<now, authVars, chat_members, messages, USER_SOCKETS, wtok, wpc,
                   wuser, wcode, alive, sent, replayq, task, last_pong_at, hbst, hbdue>>
    /\ UNCHANGED pushVars

\* ws_user from the handshake to the return of ws.accept()
Connect(c, tok) ==
    /\ wpc[c] = "new"
    /\ wtok' = [wtok EXCEPT ![c] = tok]
    /\ IF tok.form = "missing" \/ JwtVerify(tok, now) \notin {"ok", "raise"}
       THEN \* await ws.close(code=4401); return
            /\ wpc' = [wpc EXCEPT ![c] = "rejected"]
            /\ wcode' = [wcode EXCEPT ![c] = 4401]
            /\ UNCHANGED <<wuser, alive>>
       ELSE IF JwtVerify(tok, now) = "raise"
       THEN \* the exception leaves ws_user; the server ends the handshake
            /\ wpc' = [wpc EXCEPT ![c] = "aborted"]
            /\ UNCHANGED <<wuser, wcode, alive>>
       ELSE /\ wpc' = [wpc EXCEPT ![c] = "accepted"]
            /\ wuser' = [wuser EXCEPT ![c] = tok.sub]
            /\ alive' = [alive EXCEPT ![c] = TRUE]
            /\ UNCHANGED wcode
    /\ UNCHANGED <<now, authVars, mono, chat_members, messages, USER_SOCKETS, sent,
                   replayq, task, last_pong_at, hbst, hbdue>>
    /\ UNCHANGED pushVars

\* heartbeat_task = asyncio.create_task(heartbeat_loop()), entering the loop
StartLoop(c) ==
    /\ last_pong_at' = [last_pong_at EXCEPT ![c] = mono]
    /\ hbst' = [hbst EXCEPT ![c] = "sleep"]
    /\ hbdue' = [hbdue EXCEPT ![c] = mono + WS_HEARTBEAT_INTERVAL_SECONDS]

\* mutant: a connection that has events to replay is not added to the
\* registry before its replay
RegisteredAfterReplay(c, since, dbOk) ==
    /\ wpc[c] = "accepted"
    /\ USER_SOCKETS' =
          IF get_user_messages_since(wuser[c], ParseSince(since), ReplayLimit) # <<>>
          THEN USER_SOCKETS
          ELSE WsAdd(USER_SOCKETS, wuser[c], c)
    /\ IF ParseSince(since) > 0 /\ ~dbOk
       THEN \* the exception leaves ws_user before its try block
            /\ wpc' = [wpc EXCEPT ![c] = "crashed"]
            /\ alive' = [alive EXCEPT ![c] = FALSE]
            /\ UNCHANGED <<replayq, replay_since, last_pong_at, hbst, hbdue>>
       ELSE LET q == get_user_messages_since(wuser[c], ParseSince(since), ReplayLimit)
            IN  IF q # <<>>
                THEN /\ wpc' = [wpc EXCEPT ![c] = "replay"]
                     /\ replayq' = [replayq EXCEPT ![c] = q]
                     /\ replay_since' = [replay_since EXCEPT ![c] = ParseSince(since)]
                     /\ UNCHANGED <<alive, last_pong_at, hbst, hbdue>>
                ELSE /\ wpc' = [wpc EXCEPT ![c] = "recv"]
                     /\ StartLoop(c)
                     /\ UNCHANGED <<alive, replayq, replay_since>>
    /\ UNCHANGED <<now, authVars, mono, chat_members, messages, wtok, wuser, wcode,
                   sent, task>>
    /\ UNCHANGED <<message_hidden, hpc, hcall, htask, hlog, hwait, extVars>>

\* ws_user after ws.accept(): _ws_add, and with since > 0 the query of
\* get_user_messages_since (dbOk: it does not raise) up to the first send
Registered(c, since, dbOk) ==
    /\ wpc[c] = "accepted"
    /\ USER_SOCKETS' = WsAdd(USER_SOCKETS, wuser[c], c)
    /\ IF ParseSince(since) > 0 /\ ~dbOk
       THEN \* the exception leaves ws_user before its try block
            /\ wpc' = [wpc EXCEPT ![c] = "crashed"]
            /\ alive' = [alive EXCEPT ![c] = FALSE]
            /\ UNCHANGED <<replayq, replay_since, last_pong_at, hbst, hbdue>>
       ELSE LET q == get_user_messages_since(wuser[c], ParseSince(since), ReplayLimit)
            IN  IF q # <<>>
                THEN /\ wpc' = [wpc EXCEPT ![c] = "replay"]
                     /\ replayq' = [replayq EXCEPT ![c] = q]
                     /\ replay_since' = [replay_since EXCEPT ![c] = ParseSince(since)]
                     /\ UNCHANGED <<alive, last_pong_at, hbst, hbdue>>
                ELSE /\ wpc' = [wpc EXCEPT ![c] = "recv"]
                     /\ StartLoop(c)
                     /\ UNCHANGED <<alive, replayq, replay_since>>
    /\ UNCHANGED <<now, authVars, mono, chat_members, messages, wtok, wuser, wcode,
                   sent, task>>
    /\ UNCHANGED <<message_hidden, hpc, hcall, htask, hlog, hwait, extVars>>

\* one await ws_send_safe(ws, message) of the replay
ReplaySend(c) ==
    /\ wpc[c] = "replay"
    /\ sent' = WsSendSafe(sent, c,
                 Event("message", messages[Head(replayq[c])], "", Head(replayq[c])))
    /\ replayq' = [replayq EXCEPT ![c] = Tail(replayq[c])]
    /\ IF Tail(replayq[c]) = <<>>
       THEN /\ wpc' = [wpc EXCEPT ![c] = "recv"]
            /\ StartLoop(c)
       ELSE UNCHANGED <<wpc, last_pong_at, hbst, hbdue>>
    /\ UNCHANGED <<now, authVars, mono, chat_members, messages, USER_SOCKETS, wtok,
                   wuser, wcode, alive, task>>
    /\ UNCHANGED pushVars

\* the client or the network closes the transport
ClientClose(c) ==
    /\ alive[c]
    /\ alive' = [alive EXCEPT ![c] = FALSE]
    /\ UNCHANGED <<now, authVars, mono, chat_members, messages, USER_SOCKETS, wtok,
                   wpc, wuser, wcode, sent, replayq, task, last_pong_at, hbst, hbdue>>
    /\ UNCHANGED pushVars

\* mutant: a finally block without _ws_remove
FinallyNoRemove(c) ==
    /\ hbst' = [hbst EXCEPT ![c] = "done"]
    /\ UNCHANGED USER_SOCKETS

\* mutant: a finally block that leaves the heartbeat task running
FinallyKeepsHeartbeat(c) ==
    /\ USER_SOCKETS' = WsRemove(USER_SOCKETS, wuser[c], c)
    /\ UNCHANGED hbst

\* the finally block of ws_user: stop_heartbeat.set(), heartbeat_task.cancel(),
\* _ws_remove(username, ws)
Finally(c) ==
    /\ hbst' = [hbst EXCEPT ![c] = "done"]
    /\ USER_SOCKETS' = WsRemove(USER_SOCKETS, wuser[c], c)

\* await ws.receive_text() returns a frame that ends handled inside one step:
\* json.loads fails, a typing frame that is dropped, an unknown type
FrameHandled(c, f) ==
    /\ wpc[c] = "recv" /\ alive[c]
    /\ \/ f.kind \in {"notjson", "unknown"}
       \/ f.kind = "typing" /\ (f.chat_id = "" \/ ~is_member(f.chat_id, wuser[c]))
    /\ UNCHANGED <<now, authVars, wsVars>>

\* a pong frame
FramePong(c) ==
    /\ wpc[c] = "recv" /\ alive[c]
    /\ last_pong_at' = [last_pong_at EXCEPT ![c] = mono]
    /\ UNCHANGED <<now, authVars, mono, chat_members, messages, USER_SOCKETS, wtok,
                   wpc, wuser, wcode, alive, sent, replayq, task, hbst, hbdue>>
    /\ UNCHANGED pushVars

\* mutant: a typing frame is broadcast without the membership check
FrameTypingNoCheck(c, chat_id, members) ==
    /\ wpc[c] = "recv" /\ alive[c]
    /\ members \in list_members(chat_id)
    /\ LET t == BroadcastFrom(Event("typing", chat_id, wuser[c], 0), members, {},
                              USER_SOCKETS)
       IN  /\ task' = [task EXCEPT ![c] = t]
           /\ wpc' = [wpc EXCEPT ![c] = IF t = NoTask THEN "recv" ELSE "bcast"]
    /\ UNCHANGED <<now, authVars, mono, chat_members, messages, USER_SOCKETS, wtok,
                   wuser, wcode, alive, sent, replayq, last_pong_at, hbst, hbdue>>
    /\ UNCHANGED pushVars

\* a typing frame of a member: broadcast_chat up to its first send
FrameTyping(c, chat_id, members) ==
    /\ wpc[c] = "recv" /\ alive[c]
    /\ is_member(chat_id, wuser[c])
    /\ members \in list_members(chat_id)
    /\ LET t == BroadcastFrom(Event("typing", chat_id, wuser[c], 0), members, {},
                              USER_SOCKETS)
       IN  /\ task' = [task EXCEPT ![c] = t]
           /\ wpc' = [wpc EXCEPT ![c] = IF t = NoTask THEN "recv" ELSE "bcast"]
    /\ UNCHANGED <<now, authVars, mono, chat_members, messages, USER_SOCKETS, wtok,
                   wuser, wcode, alive, sent, replayq, last_pong_at, hbst, hbdue>>
    /\ UNCHANGED pushVars

\* mutant: the INSERT into message_delivered ends ON CONFLICT (message_id,
\* username) DO UPDATE SET delivered_at = EXCLUDED.delivered_at
InsertDeliveredUpdate(store, mid, u, ts) ==
    {row \in store : ~(row.message_id = mid /\ row.username = u)}
       \cup {[message_id |-> mid, username |-> u, delivered_at |-> ts]}

\* INSERT INTO message_delivered(message_id, username, delivered_at)
\*   VALUES (%s,%s,%s) ON CONFLICT (message_id, username) DO NOTHING
InsertDelivered(store, mid, u, ts) ==
    IF \E row \in store : row.message_id = mid /\ row.username = u
    THEN store
    ELSE store \cup {[message_id |-> mid, username |-> u, delivered_at |-> ts]}

\* a delivered frame of a member with a chat_id and a message_id: the
\* INSERT, commit, then broadcast_chat up to its first send
FrameDelivered(c, chat_id, mid, members) ==
    /\ wpc[c] = "recv" /\ alive[c]
    /\ chat_id # "" /\ mid # 0
    /\ is_member(chat_id, wuser[c])
    /\ message_delivered' = InsertDelivered(message_delivered, mid, wuser[c], now)
    /\ members \in list_members(chat_id)
    /\ LET t == BroadcastFrom(Event("delivered", chat_id, wuser[c], mid), members, {},
                              USER_SOCKETS)
       IN  /\ task' = [task EXCEPT ![c] = t]
           /\ wpc' = [wpc EXCEPT ![c] = IF t = NoTask THEN "recv" ELSE "bcast"]
    /\ UNCHANGED <<now, authVars, mono, chat_members, messages, USER_SOCKETS, wtok,
                   wuser, wcode, alive, sent, replayq, last_pong_at, hbst, hbdue>>
    /\ UNCHANGED <<message_hidden, hpc, hcall, htask, hlog, hwait, replay_since,
                   RATE_BUCKETS, rl_log, limit_raw, page_limit, environ, boot,
                   message_cols, moreVars>>

\* a delivered frame without chat_id, with message_id 0 or none, or of a
\* user who is not a member of chat_id: continue
FrameDeliveredDropped(c, chat_id, mid) ==
    /\ wpc[c] = "recv" /\ alive[c]
    /\ chat_id = "" \/ mid = 0 \/ ~is_member(chat_id, wuser[c])
    /\ UNCHANGED <<now, authVars, wsVars>>

\* one await ws_send_safe(ws, payload) of broadcast_users, then on to the next
\* socket, the next user, or back to ws.receive_text()
BroadcastSend(c, target) ==
    /\ wpc[c] = "bcast"
    /\ target \in task[c].snap
    /\ Room(target)
    /\ sent' = WsSendSafe(sent, target, task[c].ev)
    /\ LET t == IF task[c].snap = {target}
                THEN BroadcastFrom(task[c].ev, task[c].rest, task[c].sent_to,
                                   USER_SOCKETS)
                ELSE [task[c] EXCEPT !.snap = task[c].snap \ {target}]
       IN  /\ task' = [task EXCEPT ![c] = t]
           /\ wpc' = [wpc EXCEPT ![c] = IF t = NoTask THEN "recv" ELSE "bcast"]
    /\ UNCHANGED <<now, authVars, mono, chat_members, messages, USER_SOCKETS, wtok,
                   wuser, wcode, alive, replayq, last_pong_at, hbst, hbdue>>
    /\ UNCHANGED pushVars

\* the types of the call-signaling frames
CallTypes ==
    {"call_offer", "call_answer", "call_accept", "call_reject", "call_end",
     "call_timeout", "call_ring_ack"}

\* event_type of a call-signaling frame of type t
CallEventType(t) ==
    IF t = "call_accept" THEN "call_answer"
    ELSE IF t = "call_offer" THEN "incoming_call"
    ELSE t

\* the payload of a call event (call_id, mode, started_at and duration are
\* left out)
CallEvent(type, chat_id, username, reason) ==
    [type |-> type, chat_id |-> chat_id, username |-> username, id |-> 0,
     reason |-> reason]

\* connected_members
connected_members(usernames) ==
    LET online(u) == active_connections_count(u) > 0
    IN  SelectSeq(usernames, online)

\* mutant: a call_offer without an online recipient is treated like any
\* other call frame
FrameCallNoTimeout(c, t, chat_id, members) ==
    /\ wpc[c] = "recv" /\ alive[c]
    /\ t \in CallTypes
    /\ is_member(chat_id, wuser[c])
    /\ members \in list_members(chat_id)
    /\ LET other(u) == u # wuser[c]
           recipients == connected_members(SelectSeq(members, other))
           tk == BroadcastFrom(CallEvent(CallEventType(t), chat_id, wuser[c], ""),
                               recipients, {}, USER_SOCKETS)
       IN  /\ task' = [task EXCEPT ![c] = tk]
           /\ wpc' = [wpc EXCEPT ![c] = IF tk = NoTask THEN "recv" ELSE "bcast"]
    /\ UNCHANGED <<now, authVars, mono, chat_members, messages, USER_SOCKETS, wtok,
                   wuser, wcode, alive, sent, replayq, last_pong_at, hbst, hbdue>>
    /\ UNCHANGED pushVars

\* mutant: the sender is not taken out of the recipients
FrameCallToAll(c, t, chat_id, members) ==
    /\ wpc[c] = "recv" /\ alive[c]
    /\ t \in CallTypes
    /\ is_member(chat_id, wuser[c])
    /\ members \in list_members(chat_id)
    /\ LET recipients == connected_members(members)
           tk == BroadcastFrom(CallEvent(CallEventType(t), chat_id, wuser[c], ""),
                               recipients, {}, USER_SOCKETS)
       IN  /\ task' = [task EXCEPT ![c] = tk]
           /\ wpc' = [wpc EXCEPT ![c] = IF tk = NoTask THEN "recv" ELSE "bcast"]
    /\ UNCHANGED <<now, authVars, mono, chat_members, messages, USER_SOCKETS, wtok,
                   wuser, wcode, alive, sent, replayq, last_pong_at, hbst, hbdue>>
    /\ UNCHANGED pushVars

\* a call-signaling frame of type t with a chat_id and a call_id, from a
\* member of the chat, up to its first send: a call_offer that no other
\* member is connected for is answered by broadcast_users([username]) of a
\* call_timeout; any other frame is relayed to the sockets of each recipient
\* in turn (the recipients are distinct, so the loop is that of
\* broadcast_users)
FrameCall(c, t, chat_id, members) ==
    /\ wpc[c] = "recv" /\ alive[c]
    /\ t \in CallTypes
    /\ is_member(chat_id, wuser[c])
    /\ members \in list_members(chat_id)
    /\ LET other(u) == u # wuser[c]
           recipients == connected_members(SelectSeq(members, other))
           tk == IF t = "call_offer" /\ recipients = <<>>
                 THEN BroadcastFrom(CallEvent("call_timeout", chat_id, wuser[c], "offline"),
                                    <<wuser[c]>>, {}, USER_SOCKETS)
                 ELSE BroadcastFrom(CallEvent(CallEventType(t), chat_id, wuser[c], ""),
                                    recipients, {}, USER_SOCKETS)
       IN  /\ task' = [task EXCEPT ![c] = tk]
           /\ wpc' = [wpc EXCEPT ![c] = IF tk = NoTask THEN "recv" ELSE "bcast"]
    /\ UNCHANGED <<now, authVars, mono, chat_members, messages, USER_SOCKETS, wtok,
                   wuser, wcode, alive, sent, replayq, last_pong_at, hbst, hbdue>>
    /\ UNCHANGED pushVars

\* a call-signaling frame without chat_id or without call_id, or from a user
\* who is not a member of the chat: continue
FrameCallDropped(c, t, chat_id, call_id) ==
    /\ wpc[c] = "recv" /\ alive[c]
    /\ t \in CallTypes
    /\ chat_id = "" \/ call_id = "" \/ ~is_member(chat_id, wuser[c])
    /\ UNCHANGED <<now, authVars, wsVars>>

\* a frame whose handling raises: data.get on JSON that is not an object
\* (AttributeError), int() of a message_id that is not a number (ValueError),
\* .strip() of a chat_id that is not a string (AttributeError).  The finally
\* block runs and the exception leaves ws_user
FrameRaises(c, f) ==
    /\ wpc[c] = "recv" /\ alive[c]
    /\ f.kind \in {"nonobject", "illtyped"}
    /\ Finally(c)
    /\ wpc' = [wpc EXCEPT ![c] = "failed"]
    /\ alive' = [alive EXCEPT ![c] = FALSE]
    /\ UNCHANGED <<now, authVars, mono, chat_members, messages, wtok, wuser, wcode,
                   sent, replayq, task, last_pong_at, hbdue>>
    /\ UNCHANGED pushVars

\* await ws.receive_text() raises on the closed transport: except
\* WebSocketDisconnect, finally
RecvDisconnect(c) ==
    /\ wpc[c] = "recv" /\ ~alive[c]
    /\ Finally(c)
    /\ wpc' = [wpc EXCEPT ![c] = "closed"]
    /\ UNCHANGED <<now, authVars, mono, chat_members, messages, wtok, wuser, wcode,
                   alive, sent, replayq, task, last_pong_at, hbdue>>
    /\ UNCHANGED pushVars

\* mutant: the heartbeat closes as soon as the timeout is reached, not only
\* once it is exceeded
HeartbeatAtTimeout(c) ==
    /\ hbst[c] = "sleep"
    /\ mono >= hbdue[c]
    /\ IF (mono - last_pong_at[c]) >= WS_HEARTBEAT_TIMEOUT_SECONDS
       THEN /\ hbst' = [hbst EXCEPT ![c] = "done"]
            /\ wcode' = [wcode EXCEPT ![c] = IF alive[c] THEN 1011 ELSE wcode[c]]
            /\ alive' = [alive EXCEPT ![c] = FALSE]
            /\ UNCHANGED <<sent, hbdue>>
       ELSE /\ Room(c)
            /\ sent' = WsSendSafe(sent, c, Event("ping", "", "", 0))
            /\ hbdue' = [hbdue EXCEPT ![c] = mono + WS_HEARTBEAT_INTERVAL_SECONDS]
            /\ UNCHANGED <<hbst, wcode, alive>>
    /\ UNCHANGED <<now, authVars, mono, chat_members, messages, USER_SOCKETS, wtok,
                   wpc, wuser, replayq, task, last_pong_at>>
    /\ UNCHANGED pushVars

\* heartbeat_loop after its asyncio.sleep(): close on timeout, else ping
Heartbeat(c) ==
    /\ hbst[c] = "sleep"
    /\ mono >= hbdue[c]
    /\ IF (mono - last_pong_at[c]) > WS_HEARTBEAT_TIMEOUT_SECONDS
       THEN \* await ws.close(code=1011, reason="heartbeat timeout"); break
            /\ hbst' = [hbst EXCEPT ![c] = "done"]
            /\ wcode' = [wcode EXCEPT ![c] = IF alive[c] THEN 1011 ELSE wcode[c]]
            /\ alive' = [alive EXCEPT ![c] = FALSE]
            /\ UNCHANGED <<sent, hbdue>>
       ELSE /\ Room(c)
            /\ sent' = WsSendSafe(sent, c, Event("ping", "", "", 0))
            /\ hbdue' = [hbdue EXCEPT ![c] = mono + WS_HEARTBEAT_INTERVAL_SECONDS]
            /\ UNCHANGED <<hbst, wcode, alive>>
    /\ UNCHANGED <<now, authVars, mono, chat_members, messages, USER_SOCKETS, wtok,
                   wpc, wuser, replayq, task, last_pong_at>>
    /\ UNCHANGED pushVars

NextWs ==
    \/ MonoTick
    \/ \E c \in Conns, tok \in AccessTokens : Connect(c, tok)
    \/ \E c \in Conns, since \in SinceParams, dbOk \in BOOLEAN : Registered(c, since, dbOk)
    \/ \E c \in Conns : ReplaySend(c)
    \/ \E c \in Conns : ClientClose(c)
    \/ \E c \in Conns, f \in Frames : FrameHandled(c, f)
    \/ \E c \in Conns : FramePong(c)
    \/ \E c \in Conns, ch \in Chats : \E members \in list_members(ch) :
          FrameTyping(c, ch, members)
    \/ \E c \in Conns, target \in Conns : BroadcastSend(c, target)
    \/ \E c \in Conns, f \in Frames : FrameRaises(c, f)
    \/ \E c \in Conns : RecvDisconnect(c)
    \/ \E c \in Conns : Heartbeat(c)

(***************************************************************************)
(* HTTP handlers that broadcast.  They are coroutines of the same event    *)
(* loop as the ws_user handlers: a handler runs without interruption up to *)
(* its next await of ws_send_safe.                                         *)
(***************************************************************************)
\* the connections and the chats of the behaviours with HTTP requests
PushConns == Conns \cup {"c3"}
PushChats == {"g", "d"}

\* the access token each client holds: c1 and c2 are devices of alice, c3 is
\* a device of bob
TokenOf(c) ==
    [form |-> "signed", sub |-> IF c = "c3" THEN "bob" ELSE "alice", exp |-> now + 1]

NoSince == [kind |-> "absent", val |-> 0]

\* the lists of usernames a caller can pass to broadcast_users
UsernameLists ==
    UNION {[1 .. n -> Usernames] : n \in 0 .. 3}

\* the connections of the registry
AllSockets(sockets) == UNION {sockets[u] : u \in DOMAIN sockets}

\* request r leaves the queue of suspended senders and, with sockets left in
\* t, joins it at the end for the socket its loop takes next (list(set) has
\* no defined order)
Arrive(w, r, t) ==
    LET others(e) == e.r # r
    IN  IF t = NoTask THEN {SelectSeq(w, others)}
        ELSE {Append(SelectSeq(w, others), [r |-> r, ws |-> ws]) : ws \in t.snap}

\* request r is suspended in a send on target and no request suspended on
\* target arrived before it: the senders a transport has suspended resume in
\* their order of arrival
NextSender(r, target) ==
    \E i \in DOMAIN hwait :
       /\ hwait[i] = [r |-> r, ws |-> target]
       /\ \A j \in 1 .. i - 1 : hwait[j].ws # target

\* broadcast_users(usernames, ev) from its call to its first await
BeginBroadcast(r, usernames, ev) ==
    LET t == BroadcastFrom(ev, usernames, {}, USER_SOCKETS)
    IN  /\ hwait' \in Arrive(hwait, r, t)
        /\ hcall' = [hcall EXCEPT ![r] = [ev |-> ev, usernames |-> usernames,
                                          reg |-> AllSockets(USER_SOCKETS),
                                          replaying |-> {c \in DOMAIN wpc : wpc[c] = "replay"}]]
        /\ htask' = [htask EXCEPT ![r] = t]
        /\ hlog' = [hlog EXCEPT ![r] = <<>>]
        /\ hpc' = [hpc EXCEPT ![r] = IF t = NoTask THEN "done" ELSE "bcast"]

\* mutant: require_member lets every user through
RequireMemberAlways(chat_id, username) == "ok"

\* require_member: what it raises, "ok" when it returns
require_member(chat_id, username) ==
    IF is_member(chat_id, username) THEN "ok" ELSE "403 Not a member"

\* the text of the messages that are sent, and of the ones that are edited
SomeText == "a"
EditTexts == {"b"}

\* POST /api/messages by username with a chat_id and a text (limited: its
\* send bucket is full): the response, in the order the handler decides it
CreateMessageOutcome(username, chat_id, text, limited) ==
    IF limited THEN "429 rate_limit_exceeded"
    ELSE IF chat_id = "" THEN "400 chat_id required"
    ELSE IF text = "" THEN "400 text required"
    ELSE IF require_member(chat_id, username) # "ok" THEN require_member(chat_id, username)
    ELSE "200 ok"

\* GET /api/messages by username for a chat_id: the response
ListMessagesOutcome(username, chat_id) ==
    IF chat_id = "" THEN "400 chat_id required"
    ELSE IF require_member(chat_id, username) # "ok" THEN require_member(chat_id, username)
    ELSE "200 ok"

\* mutant: POST /api/messages that starts its broadcast without the INSERT
CreateTextMessageUncommitted(r, username, chat_id, members) ==
    /\ hpc[r] = "idle"
    /\ CreateMessageOutcome(username, chat_id, SomeText, FALSE) = "200 ok"
    /\ members \in list_members(chat_id)
    /\ BeginBroadcast(r, members, Event("message", chat_id, username, Len(messages) + 1))
    /\ UNCHANGED <<now, authVars, mono, chat_members, messages, USER_SOCKETS, wtok,
                   wpc, wuser, wcode, alive, sent, replayq, task, last_pong_at, hbst,
                   hbdue, message_hidden, replay_since, extVars>>

\* POST /api/messages by username below its send limit that is answered 200
\* (authenticated, a member of chat_id, with a valid text): the INSERT of the
\* message and of the sender's delivered row, commit, then broadcast_chat up
\* to its first send
CreateTextMessage(r, username, chat_id, members) ==
    /\ hpc[r] = "idle"
    /\ CreateMessageOutcome(username, chat_id, SomeText, FALSE) = "200 ok"
    /\ members \in list_members(chat_id)
    /\ messages' = Append(messages, chat_id)
    /\ message_cols' = Append(message_cols, NewRow(username, SomeText))
    /\ message_delivered' =
          InsertDelivered(message_delivered, Len(messages) + 1, username, now)
    /\ BeginBroadcast(r, members, Event("message", chat_id, username, Len(messages) + 1))
    /\ UNCHANGED <<now, authVars, mono, chat_members, USER_SOCKETS, wtok, wpc, wuser,
                   wcode, alive, sent, replayq, task, last_pong_at, hbst, hbdue,
                   message_hidden, replay_since, RATE_BUCKETS, rl_log, limit_raw,
                   page_limit, environ, boot, moreVars>>

\* the payloads of message_edited and of message_deleted_all
EditedEvent(chat_id, id, text, edited_at) ==
    [type |-> "message_edited", chat_id |-> chat_id, username |-> "", id |-> id,
     text |-> text, edited_at |-> edited_at, is_edited |-> TRUE]

DeletedEvent(chat_id, id, deleted_at) ==
    [type |-> "message_deleted_all", chat_id |-> chat_id, username |-> "", id |-> id,
     deleted_at |-> deleted_at]

\* mutant: edit_message without the comparison of the sender
EditOutcomeAnyMember(username, message_id, new_text) ==
    IF new_text = "" THEN "400 text required"
    ELSE IF message_id \notin DOMAIN messages THEN "404 Message not found"
    ELSE IF require_member(messages[message_id], username) # "ok"
         THEN require_member(messages[message_id], username)
    ELSE IF message_cols[message_id].deleted_for_all THEN "400 Message deleted"
    ELSE "200 ok"

\* PATCH /api/messages/{message_id} by username with new_text: the response
EditOutcome(username, message_id, new_text) ==
    IF new_text = "" THEN "400 text required"
    ELSE IF message_id \notin DOMAIN messages THEN "404 Message not found"
    ELSE IF require_member(messages[message_id], username) # "ok"
         THEN require_member(messages[message_id], username)
    ELSE IF message_cols[message_id].sender # username THEN "403 Only sender can edit"
    ELSE IF message_cols[message_id].deleted_for_all THEN "400 Message deleted"
    ELSE "200 ok"

\* PATCH /api/messages/{message_id} that is answered 200: the UPDATE, commit,
\* then broadcast_chat of message_edited up to its first send
EditMessage(r, username, message_id, new_text, members) ==
    /\ hpc[r] = "idle"
    /\ EditOutcome(username, message_id, new_text) = "200 ok"
    /\ message_cols' = [message_cols EXCEPT ![message_id] =
                           [@ EXCEPT !.text = new_text, !.is_edited = TRUE,
                                     !.edited_at = now]]
    /\ members \in list_members(messages[message_id])
    /\ BeginBroadcast(r, members, EditedEvent(messages[message_id], message_id, new_text, now))
    /\ UNCHANGED <<now, authVars, mono, chat_members, messages, USER_SOCKETS, wtok,
                   wpc, wuser, wcode, alive, sent, replayq, task, last_pong_at, hbst,
                   hbdue, message_hidden, replay_since, message_delivered,
                   RATE_BUCKETS, rl_log, limit_raw, page_limit, environ, boot, moreVars>>

\* DELETE /api/messages/{message_id}?scope= by username: the response
DeleteOutcome(username, message_id, scope) ==
    IF scope \notin {"me", "all"} THEN "400 scope must be me|all"
    ELSE IF message_id \notin DOMAIN messages THEN "404 Message not found"
    ELSE IF require_member(messages[message_id], username) # "ok"
         THEN require_member(messages[message_id], username)
    ELSE IF scope = "me" THEN "200 ok"
    ELSE IF message_cols[message_id].sender # username
         THEN "403 Only sender can delete for all"
    ELSE "200 ok"

\* DELETE with scope=me that is answered 200: the row of message_hidden
\* (ON CONFLICT DO NOTHING), commit, no broadcast
DeleteForMe(r, username, message_id) ==
    /\ hpc[r] = "idle"
    /\ DeleteOutcome(username, message_id, "me") = "200 ok"
    /\ message_hidden' = message_hidden \cup {<<message_id, username>>}
    /\ hpc' = [hpc EXCEPT ![r] = "done"]
    /\ UNCHANGED <<now, authVars, mono, chat_members, messages, USER_SOCKETS, wtok,
                   wpc, wuser, wcode, alive, sent, replayq, task, last_pong_at, hbst,
                   hbdue, hcall, htask, hlog, hwait, replay_since, extVars>>

\* DELETE with scope=all that is answered 200: the UPDATE, commit, then
\* broadcast_chat of message_deleted_all up to its first send
DeleteForAll(r, username, message_id, members) ==
    /\ hpc[r] = "idle"
    /\ DeleteOutcome(username, message_id, "all") = "200 ok"
    /\ message_cols' = [message_cols EXCEPT ![message_id] =
                           [@ EXCEPT !.deleted_for_all = TRUE, !.deleted_at = now]]
    /\ members \in list_members(messages[message_id])
    /\ BeginBroadcast(r, members, DeletedEvent(messages[message_id], message_id, now))
    /\ UNCHANGED <<now, authVars, mono, chat_members, messages, USER_SOCKETS, wtok,
                   wpc, wuser, wcode, alive, sent, replayq, task, last_pong_at, hbst,
                   hbdue, message_hidden, replay_since, message_delivered,
                   RATE_BUCKETS, rl_log, limit_raw, page_limit, environ, boot, moreVars>>

\* mutant: broadcast_users reads the registry with setdefault(u, set()), which
\* leaves an entry for every user it looks up
BroadcastUsersCallSetdefault(r, usernames) ==
    /\ hpc[r] = "idle"
    /\ BeginBroadcast(r, usernames, Event("invited", "g", "", 0))
    /\ USER_SOCKETS' = [u \in DOMAIN USER_SOCKETS \cup {usernames[i] : i \in DOMAIN usernames} |->
                          SocketsOf(USER_SOCKETS, u)]
    /\ UNCHANGED <<now, authVars, mono, chat_members, messages, wtok,
                   wpc, wuser, wcode, alive, sent, replayq, task, last_pong_at, hbst,
                   hbdue, message_hidden, replay_since, extVars>>

\* a call of broadcast_users with any list of usernames
BroadcastUsersCall(r, usernames) ==
    /\ hpc[r] = "idle"
    /\ BeginBroadcast(r, usernames, Event("invited", "g", "", 0))
    /\ UNCHANGED <<now, authVars, mono, chat_members, messages, USER_SOCKETS, wtok,
                   wpc, wuser, wcode, alive, sent, replayq, task, last_pong_at, hbst,
                   hbdue, message_hidden, replay_since, extVars>>

\* mutant: a send that fails ends the broadcast with its exception
RequestSendRaises(r, target) ==
    /\ hpc[r] = "bcast"
    /\ target \in htask[r].snap
    /\ NextSender(r, target)
    /\ sent' = WsSendSafe(sent, target, htask[r].ev)
    /\ hlog' = [hlog EXCEPT ![r] = Append(hlog[r], [ws |-> target, ok |-> alive[target]])]
    /\ LET t == IF ~alive[target] THEN NoTask
                ELSE IF htask[r].snap = {target}
                THEN BroadcastFrom(htask[r].ev, htask[r].rest, htask[r].sent_to,
                                   USER_SOCKETS)
                ELSE [htask[r] EXCEPT !.snap = htask[r].snap \ {target}]
       IN  /\ htask' = [htask EXCEPT ![r] = t]
           /\ hwait' \in Arrive(hwait, r, t)
           /\ hpc' = [hpc EXCEPT ![r] = IF ~alive[target] THEN "failed"
                                        ELSE IF t = NoTask THEN "done" ELSE "bcast"]
    /\ UNCHANGED <<now, authVars, mono, chat_members, messages, USER_SOCKETS, wtok,
                   wpc, wuser, wcode, alive, replayq, task, last_pong_at, hbst, hbdue,
                   message_hidden, hcall, replay_since, extVars>>

\* mutant: broadcast_users iterates the set of the registry itself, not a
\* list() copy of it, so the loop follows the connections that come and go
RequestSendLiveSet(r, target) ==
    /\ hpc[r] = "bcast"
    /\ target \in htask[r].snap
    /\ NextSender(r, target)
    /\ sent' = WsSendSafe(sent, target, htask[r].ev)
    /\ hlog' = [hlog EXCEPT ![r] = Append(hlog[r], [ws |-> target, ok |-> alive[target]])]
    /\ LET left == SocketsOf(USER_SOCKETS, wuser[target])
                      \ ({hlog[r][i].ws : i \in DOMAIN hlog[r]} \cup {target})
           t == IF left = {}
                THEN BroadcastFrom(htask[r].ev, htask[r].rest, htask[r].sent_to,
                                   USER_SOCKETS)
                ELSE [htask[r] EXCEPT !.snap = left]
       IN  /\ htask' = [htask EXCEPT ![r] = t]
           /\ hwait' \in Arrive(hwait, r, t)
           /\ hpc' = [hpc EXCEPT ![r] = IF t = NoTask THEN "done" ELSE "bcast"]
    /\ UNCHANGED <<now, authVars, mono, chat_members, messages, USER_SOCKETS, wtok,
                   wpc, wuser, wcode, alive, replayq, task, last_pong_at, hbst, hbdue,
                   message_hidden, hcall, replay_since, extVars>>

\* one await ws_send_safe(ws, payload) of the broadcast_users of a request,
\* then on to the next socket, the next user, or the handler's return
RequestSend(r, target) ==
    /\ hpc[r] = "bcast"
    /\ target \in htask[r].snap
    /\ NextSender(r, target)
    /\ sent' = WsSendSafe(sent, target, htask[r].ev)
    /\ hlog' = [hlog EXCEPT ![r] = Append(hlog[r], [ws |-> target, ok |-> alive[target]])]
    /\ LET t == IF htask[r].snap = {target}
                THEN BroadcastFrom(htask[r].ev, htask[r].rest, htask[r].sent_to,
                                   USER_SOCKETS)
                ELSE [htask[r] EXCEPT !.snap = htask[r].snap \ {target}]
       IN  /\ htask' = [htask EXCEPT ![r] = t]
           /\ hwait' \in Arrive(hwait, r, t)
           /\ hpc' = [hpc EXCEPT ![r] = IF t = NoTask THEN "done" ELSE "bcast"]
    /\ UNCHANGED <<now, authVars, mono, chat_members, messages, USER_SOCKETS, wtok,
                   wpc, wuser, wcode, alive, replayq, task, last_pong_at, hbst, hbdue,
                   message_hidden, hcall, replay_since, extVars>>

\* one message in chat g, no connection, no request
InitPush ==
    /\ InitAuth
    /\ chat_members = [ch \in PushChats |-> IF ch = "g" THEN {"alice", "bob"} ELSE {"bob"}]
    /\ messages = <<"g">>
    /\ message_hidden = {}
    /\ message_delivered = {}
    /\ message_cols = SentBy("alice")
    /\ InitHandlers(PushConns)

\* the connections of CS come and go
NextConns(CS) ==
    \/ \E c \in CS : Connect(c, TokenOf(c))
    \/ \E c \in CS : Registered(c, NoSince, TRUE)
    \/ \E c \in CS : ClientClose(c)
    \/ \E c \in CS : RecvDisconnect(c)

\* one request, a call of broadcast_users with any list or POST /api/messages,
\* while three connections come and go
NextPush ==
    \/ NextConns(PushConns)
    \/ \E usernames \in UsernameLists : BroadcastUsersCall("r1", usernames)
    \/ \E u \in Usernames, ch \in PushChats : \E members \in list_members(ch) :
          CreateTextMessage("r1", u, ch, members)
    \/ \E target \in PushConns : RequestSend("r1", target)

\* two POST /api/messages, while a connection of alice and a connection of
\* bob come and go, with or without a replay
NextMsg ==
    \/ NextConns({"c1", "c3"})
    \/ \E c \in {"c1", "c3"} : Registered(c, [kind |-> "int", val |-> 1], TRUE)
    \/ \E c \in {"c1", "c3"} : ReplaySend(c)
    \/ \E r \in Reqs, u \in Usernames, ch \in PushChats : \E members \in list_members(ch) :
          CreateTextMessage(r, u, ch, members)
    \/ \E r \in Reqs, target \in PushConns : RequestSend(r, target)

(***************************************************************************)
(* The replay on connect over any content of the store                     *)
(***************************************************************************)
MaxMessages == 4
ReplayChats == {"g", "d", "h"}

\* the rows a user can have put in message_hidden for the messages so far
HiddenRows(n) ==
    {row \in {<<2, "alice">>, <<3, "alice">>, <<2, "bob">>} : row[1] <= n}

\* alice is a member of g and h, bob of g and d; any messages in the three
\* chats, any of them hidden; no connection
InitReplay ==
    /\ InitAuth
    /\ chat_members = [ch \in ReplayChats |->
                         IF ch = "g" THEN {"alice", "bob"}
                         ELSE IF ch = "d" THEN {"bob"} ELSE {"alice"}]
    /\ messages \in UNION {[1 .. n -> ReplayChats] : n \in 0 .. MaxMessages}
    /\ message_hidden \in SUBSET HiddenRows(Len(messages))
    /\ message_delivered = {}
    /\ message_cols = SentBy("alice")
    /\ InitHandlers({"c1"})

\* a client of alice connects with any since parameter and sends frames
NextReplay ==
    \/ Connect("c1", TokenOf("c1"))
    \/ \E since \in SinceParams : Registered("c1", since, TRUE)
    \/ ReplaySend("c1")
    \/ ClientClose("c1")
    \/ RecvDisconnect("c1")
    \/ FramePong("c1")
    \/ \E ch \in ReplayChats : \E members \in list_members(ch) :
          FrameTyping("c1", ch, members)
    \/ BroadcastSend("c1", "c1")

\* the frame types the clients send: the two that are renamed and one that
\* is not
SentCallTypes == {"call_offer", "call_accept", "call_end"}

\* call-signaling frames of a client of alice and a client of bob, while
\* these two connections and a second connection of alice are opened and
\* bob's is closed
NextCall ==
    \/ \E c \in PushConns : Connect(c, TokenOf(c))
    \/ \E c \in PushConns : Registered(c, NoSince, TRUE)
    \/ ClientClose("c3")
    \/ RecvDisconnect("c3")
    \/ \E c \in {"c1", "c3"}, t \in SentCallTypes, ch \in PushChats :
          \E members \in list_members(ch) : FrameCall(c, t, ch, members)
    \/ \E t \in SentCallTypes : FrameCallDropped("c1", t, "d", "k")
    \/ \E c \in {"c1", "c3"} :
          \/ FrameCallDropped(c, "call_offer", "", "k")
          \/ FrameCallDropped(c, "call_end", "g", "")
    \/ \E c, target \in PushConns : BroadcastSend(c, target)

\* any membership of alice and bob in the two chats; no connection
InitTyping ==
    /\ InitAuth
    /\ chat_members \in [PushChats -> SUBSET Usernames]
    /\ messages = <<>>
    /\ message_hidden = {}
    /\ message_delivered = {}
    /\ message_cols = SentBy("alice")
    /\ InitHandlers({"c1", "c3"})

\* typing frames of a client of alice and a client of bob
NextTyping ==
    \/ NextConns({"c1", "c3"})
    \/ \E c \in {"c1", "c3"}, ch \in PushChats : \E members \in list_members(ch) :
          FrameTyping(c, ch, members)
    \/ \E c \in {"c1", "c3"}, ch \in PushChats \cup {""} :
          FrameHandled(c, [kind |-> "typing", chat_id |-> ch])
    \/ \E c, target \in {"c1", "c3"} : BroadcastSend(c, target)

\* the message ids of the delivered frames: none, and an id the store need
\* not hold
DeliveredIds == {0, 1}

\* delivered frames of a client of alice, a member of chat g, and a client of
\* bob, a member of both chats, while the clock advances and bob's transport
\* can close
NextDelivered ==
    \/ \E c \in {"c1", "c3"} : Connect(c, TokenOf(c))
    \/ \E c \in {"c1", "c3"} : Registered(c, NoSince, TRUE)
    \/ ClientClose("c3")
    \/ Tick
    \/ \E c \in {"c1", "c3"}, ch \in PushChats, mid \in DeliveredIds :
          \E members \in list_members(ch) : FrameDelivered(c, ch, mid, members)
    \/ \E c \in {"c1", "c3"}, ch \in PushChats \cup {""}, mid \in DeliveredIds :
          FrameDeliveredDropped(c, ch, mid)
    \/ \E c, target \in {"c1", "c3"} : BroadcastSend(c, target)

(***************************************************************************)
(* The rate limiter                                                        *)
(***************************************************************************)
\* seconds; the limits of the two kinds of bucket
RATE_LIMIT_WINDOW_SECONDS == 1
RATE_LIMIT_MAX_AUTH == 1
RATE_LIMIT_MAX_SEND == 2

\* the model follows this many calls of check_rate_limit
MaxCalls == 4

\* the hosts of the clients and the actions of check_auth_rate_limit
Hosts == {"h1"}
AuthActions == {"login", "refresh"}

Max(a, b) == IF a >= b THEN a ELSE b

\* RATE_BUCKETS.get(bucket, [])
BucketOf(store, bucket) == IF bucket \in DOMAIN store THEN store[bucket] ELSE <<>>

\* [t for t in RATE_BUCKETS.get(bucket, []) if t >= start]
InWindow(store, bucket, ts) ==
    LET recent(t) == t >= ts - RATE_LIMIT_WINDOW_SECONDS
    IN  SelectSeq(BucketOf(store, bucket), recent)

\* check_rate_limit(bucket, limit): RateLimitExceeded with its
\* retry_after_seconds, or the call's timestamp joins the bucket
check_rate_limit(bucket, limit) ==
    /\ Len(rl_log) < MaxCalls
    /\ LET arr == InWindow(RATE_BUCKETS, bucket, now)
       IN  IF Len(arr) >= limit
           THEN /\ rl_log' = Append(rl_log,
                       [bucket |-> bucket, limit |-> limit, at |-> now, ok |-> FALSE,
                        retry_after_seconds |->
                           Max(1, RATE_LIMIT_WINDOW_SECONDS - (now - arr[1]))])
                /\ UNCHANGED RATE_BUCKETS
           ELSE /\ rl_log' = Append(rl_log,
                       [bucket |-> bucket, limit |-> limit, at |-> now, ok |-> TRUE,
                        retry_after_seconds |-> 0])
                /\ RATE_BUCKETS' =
                      [b \in DOMAIN RATE_BUCKETS \cup {bucket} |->
                          IF b = bucket THEN Append(arr, now) ELSE RATE_BUCKETS[b]]
    /\ UNCHANGED <<now, authVars, mono, chat_members, messages, USER_SOCKETS, wtok,
                   wpc, wuser, wcode, alive, sent, replayq, task, last_pong_at, hbst,
                   hbdue, message_hidden, hpc, hcall, htask, hlog, hwait, replay_since,
                   message_delivered, limit_raw, page_limit, environ, boot,
                   message_cols, moreVars>>

\* check_auth_rate_limit(request, action) of a request from host
check_auth_rate_limit(host, action) ==
    check_rate_limit(<<"auth", action, host>>, RATE_LIMIT_MAX_AUTH)

\* the calls of the limiter by the handlers of the auth requests and of the
\* requests that send a message, while the clock advances
NextRate ==
    \/ Tick
    \/ \E host \in Hosts, action \in AuthActions : check_auth_rate_limit(host, action)
    \/ \E u \in Usernames : check_rate_limit(<<"send", u>>, RATE_LIMIT_MAX_SEND)

(***************************************************************************)
(* The page size of list_messages                                          *)
(***************************************************************************)
\* the model passes limits from LimitMargin below 1 to LimitMargin above 200
LimitMargin == 3

\* the values of an Optional[int]: None and the integers
LimitValues ==
    {[kind |-> "none", val |-> 0]}
       \cup {[kind |-> "int", val |-> v] : v \in (1 - LimitMargin) .. (200 + LimitMargin)}

\* mutant: min(int(value), 200) without the max(1, ...)
NormalizeNoFloor(value) ==
    IF value.kind = "none" THEN 50 ELSE Min(value.val, 200)

\* normalize_messages_limit(value)
normalize_messages_limit(value) ==
    IF value.kind = "none" THEN 50 ELSE Max(1, Min(value.val, 200))

\* page_limit = normalize_messages_limit(limit_raw)
NormalizeLimit(value) ==
    /\ limit_raw' = value
    /\ page_limit' = normalize_messages_limit(value)
    /\ UNCHANGED <<now, authVars, mono, chat_members, messages, USER_SOCKETS, wtok,
                   wpc, wuser, wcode, alive, sent, replayq, task, last_pong_at, hbst,
                   hbdue, message_hidden, hpc, hcall, htask, hlog, hwait, replay_since,
                   message_delivered, RATE_BUCKETS, rl_log, environ, boot,
                   message_cols, moreVars>>

NextLimit == \E value \in LimitValues : NormalizeLimit(value)

(***************************************************************************)
(* The import of main.py                                                   *)
(***************************************************************************)
\* the lengths the model gives the values of the environment: empty or
\* blank, one character short of the 16 a secret needs, and 16
EnvLengths == {0, 15, 16}

EnvValues == {Unset} \cup {Value(n) : n \in EnvLengths}

\* the environments the program is started with
Environments ==
    [JWT_SECRET : EnvValues, DATABASE_URL : {Unset, Value(0), Value(18)},
     CLOUDINARY_CLOUD_NAME : {Unset, Value(4)}, CLOUDINARY_API_KEY : {Unset, Value(4)},
     CLOUDINARY_API_SECRET : {Unset, Value(4)}]

\* (os.environ.get(name) or "").strip() is empty
Blank(env, name) == ~env[name].set \/ env[name].len = 0

\* len(JWT_SECRET) after main.py:58-64: the value of the environment, or the
\* 64 characters of secrets.token_urlsafe(48) when that is missing or blank
JwtSecretLen(env) ==
    IF Blank(env, "JWT_SECRET") THEN 64 ELSE env.JWT_SECRET.len

\* the module-level code of main.py: the RuntimeError it raises, or the
\* application is built and serves
ImportMain(env) ==
    IF JwtSecretLen(env) < 16 THEN "RuntimeError JWT_SECRET must be at least 16 characters"
    ELSE IF Blank(env, "DATABASE_URL") THEN "RuntimeError DATABASE_URL env is required"
    ELSE IF \/ Blank(env, "CLOUDINARY_CLOUD_NAME")
            \/ Blank(env, "CLOUDINARY_API_KEY")
            \/ Blank(env, "CLOUDINARY_API_SECRET")
         THEN "RuntimeError Cloudinary env vars required"
    ELSE "serving"

\* the program is started in environment env, with no connection and no
\* request of the process before it left
Start(env) ==
    /\ environ' = env
    /\ boot' = ImportMain(env)
    /\ UNCHANGED <<now, authVars, mono, chat_members, messages, USER_SOCKETS, wtok,
                   wpc, wuser, wcode, alive, sent, replayq, task, last_pong_at, hbst,
                   hbdue, message_hidden, hpc, hcall, htask, hlog, hwait, replay_since,
                   message_delivered, RATE_BUCKETS, rl_log, limit_raw, page_limit,
                   message_cols, moreVars>>

\* the program is started in any environment, and while it serves it
\* answers register and login requests
NextBoot ==
    \/ \E env \in Environments : Start(env)
    \/ \E u \in Usernames, valid \in BOOLEAN :
          boot = "serving" /\ Register(u, valid, FALSE)
    \/ \E u \in Usernames, pwOk \in BOOLEAN :
          boot = "serving" /\ Login(u, pwOk, FALSE)

Init == InitAuth /\ InitWs

SpecAuth == Init /\ [][NextAuth]_vars

SpecWs == Init /\ [][NextWs]_vars

SpecPush == InitPush /\ [][NextPush]_vars

SpecMsg == InitPush /\ [][NextMsg]_vars
SpecReplay == InitReplay /\ [][NextReplay]_vars
SpecCall == InitPush /\ [][NextCall]_vars
SpecTyping == InitTyping /\ [][NextTyping]_vars
SpecRate == Init /\ [][NextRate]_vars
SpecLimit == Init /\ [][NextLimit]_vars
SpecBoot == Init /\ [][NextBoot]_vars
SpecDelivered == InitPush /\ [][NextDelivered]_vars

\* two clients of alice connect, answer pings or not, and close or not,
\* while time.monotonic() advances
NextLive ==
    \/ MonoTick
    \/ \E c \in Conns : Connect(c, TokenOf(c))
    \/ \E c \in Conns : Registered(c, NoSince, TRUE)
    \/ \E c \in Conns : FramePong(c)
    \/ \E c \in Conns : ClientClose(c)
    \/ \E c \in Conns : RecvDisconnect(c)
    \/ \E c \in Conns : Heartbeat(c)

\* ws.receive_text() on a closed transport does raise: the event loop resumes
\* the handler that waits in it
SpecLive ==
    /\ Init
    /\ [][NextLive]_vars
    /\ \A c \in Conns : WF_vars(RecvDisconnect(c))

(***************************************************************************)
(* The requests on the messages of a chat                                  *)
(***************************************************************************)
\* GET /api/messages that answers with a page: the page size is normalised,
\* the membership is checked, nothing is written
ListMessages(username, chat_id, value) ==
    /\ ListMessagesOutcome(username, chat_id) = "200 ok"
    /\ limit_raw' = value
    /\ page_limit' = normalize_messages_limit(value)
    /\ UNCHANGED <<now, authVars, mono, chat_members, messages, USER_SOCKETS, wtok,
                   wpc, wuser, wcode, alive, sent, replayq, task, last_pong_at, hbst,
                   hbdue, message_hidden, hpc, hcall, htask, hlog, hwait, replay_since,
                   message_delivered, RATE_BUCKETS, rl_log, environ, boot,
                   message_cols, moreVars>>

\* message 1 of chat g sent by alice, message 2 of chat d sent by bob;
\* alice and bob are members of g, only bob of d
InitHttp ==
    /\ InitAuth
    /\ chat_members = [ch \in PushChats |-> IF ch = "g" THEN {"alice", "bob"} ELSE {"bob"}]
    /\ messages = <<"g", "d">>
    /\ message_hidden = {}
    /\ message_delivered = {}
    /\ message_cols = <<NewRow("alice", SomeText), NewRow("bob", SomeText)>>
    /\ InitHandlers(PushConns)

HttpConns == {"c1", "c3"}
MessageIds == 1 .. 3

\* two requests that send, edit, delete or list, by alice or by bob, while
\* a connection of alice and one of bob open
NextHttp ==
    \/ \E c \in HttpConns : Connect(c, TokenOf(c))
    \/ \E c \in HttpConns : Registered(c, NoSince, TRUE)
    \/ \E r \in Reqs, u \in Usernames, ch \in PushChats : \E members \in list_members(ch) :
          CreateTextMessage(r, u, ch, members)
    \/ \E r \in Reqs, u \in Usernames, m \in MessageIds, text \in EditTexts :
          \E members \in list_members(IF m \in DOMAIN messages THEN messages[m] ELSE "") :
             EditMessage(r, u, m, text, members)
    \/ \E r \in Reqs, u \in Usernames, m \in MessageIds : DeleteForMe(r, u, m)
    \/ \E r \in Reqs, u \in Usernames, m \in MessageIds :
          \E members \in list_members(IF m \in DOMAIN messages THEN messages[m] ELSE "") :
             DeleteForAll(r, u, m, members)
    \/ \E u \in Usernames, ch \in PushChats : ListMessages(u, ch, [kind |-> "none", val |-> 0])
    \/ \E r \in Reqs, target \in HttpConns : RequestSend(r, target)

SpecHttp == InitHttp /\ [][NextHttp]_vars

\* one request that sends, edits or deletes for all, while a connection of
\* alice and one of bob open and report message 1 delivered
NextCommit ==
    \/ \E c \in HttpConns : Connect(c, TokenOf(c))
    \/ \E c \in HttpConns : Registered(c, NoSince, TRUE)
    \/ \E c \in HttpConns, ch \in PushChats : \E members \in list_members(ch) :
          FrameDelivered(c, ch, 1, members)
    \/ \E c, target \in HttpConns : BroadcastSend(c, target)
    \/ \E u \in Usernames, ch \in PushChats : \E members \in list_members(ch) :
          CreateTextMessage("r1", u, ch, members)
    \/ \E u \in Usernames, m \in MessageIds, text \in EditTexts :
          \E members \in list_members(IF m \in DOMAIN messages THEN messages[m] ELSE "") :
             EditMessage("r1", u, m, text, members)
    \/ \E u \in Usernames, m \in MessageIds :
          \E members \in list_members(IF m \in DOMAIN messages THEN messages[m] ELSE "") :
             DeleteForAll("r1", u, m, members)
    \/ \E target \in HttpConns : RequestSend("r1", target)

SpecCommit == InitHttp /\ [][NextCommit]_vars

\* delivered frames that name any chat and any message id, of a client of
\* alice, a member of chat g, and a client of bob, a member of both chats,
\* over the store of InitHttp: message 1 in g, message 2 in d, no message 3
NextDeliveredAny ==
    \/ \E c \in HttpConns : Connect(c, TokenOf(c))
    \/ \E c \in HttpConns : Registered(c, NoSince, TRUE)
    \/ \E c \in HttpConns, ch \in PushChats, mid \in MessageIds :
          \E members \in list_members(ch) : FrameDelivered(c, ch, mid, members)
    \/ \E c \in HttpConns, ch \in PushChats \cup {""}, mid \in MessageIds \cup {0} :
          FrameDeliveredDropped(c, ch, mid)
    \/ \E c, target \in HttpConns : BroadcastSend(c, target)

SpecDeliveredAny == InitHttp /\ [][NextDeliveredAny]_vars

(***************************************************************************)
(* The query of the replay with any limit                                  *)
(***************************************************************************)
\* the limits a caller passes: some that the stores of InitReplay exceed, and
\* the default, which ws_user uses
QueryLimits == {2, ReplayLimit}

\* a call get_user_messages_since(u, since_message_id, limit) and its rows
GetUserMessagesSince(u, since_message_id, limit) ==
    /\ since_call' = [username |-> u, since_message_id |-> since_message_id,
                      limit |-> limit,
                      rows |-> get_user_messages_since(u, since_message_id, limit)]
    /\ UNCHANGED <<now, authVars, mono, chat_members, messages, USER_SOCKETS, wtok,
                   wpc, wuser, wcode, alive, sent, replayq, task, last_pong_at, hbst,
                   hbdue, message_hidden, hpc, hcall, htask, hlog, hwait, replay_since,
                   message_delivered, RATE_BUCKETS, rl_log, limit_raw, page_limit,
                   environ, boot, message_cols, chats, member_role, chat_reads, hnext>>

\* calls of the query for any user, watermark and limit over any store, and
\* a client of alice that connects with any since parameter
NextSince ==
    \/ \E u \in Usernames, since_message_id \in 0 .. 1, limit \in QueryLimits :
          GetUserMessagesSince(u, since_message_id, limit)
    \/ Connect("c1", TokenOf("c1"))
    \/ \E since \in SinceParams : Registered("c1", since, TRUE)

SpecSince == InitReplay /\ [][NextSince]_vars

(***************************************************************************)
(* The chats, their members and the read markers                           *)
(***************************************************************************)
\* the users that are registered when chats are administered, and a name
\* that no account has
NoAccount == "carol"
ChatUsers == Usernames \cup {NoAccount}

\* the state no request on a chat or on a read marker writes
chatKeep == <<now, authVars, mono, USER_SOCKETS, wtok, wpc, wuser, wcode, alive, sent,
              replayq, task, last_pong_at, hbst, hbdue, replay_since, RATE_BUCKETS,
              rl_log, limit_raw, page_limit, environ, boot, message_cols, since_call>>

\* get_chat: the row of the chat, NoChat for None
NoChat == [type |-> "", created_by |-> ""]
get_chat(chat_id) == IF chat_id \in DOMAIN chats THEN chats[chat_id] ELSE NoChat

\* get_member_role: the role of the row, "" for None
get_member_role(chat_id, username) ==
    IF <<chat_id, username>> \in DOMAIN member_role
    THEN member_role[<<chat_id, username>>]
    ELSE ""

\* can_moderate
can_moderate(chat_id, username) ==
    IF get_chat(chat_id) = NoChat THEN FALSE
    ELSE IF get_chat(chat_id).type = "dm" THEN is_member(chat_id, username)
    ELSE get_member_role(chat_id, username) \in {"owner", "admin"}

\* DELETE FROM <table> WHERE chat_id=%s
DeleteRowsOfChat(store, chat_id) ==
    [p \in {q \in DOMAIN store : q[1] # chat_id} |-> store[p]]

\* DELETE FROM <table> WHERE chat_id=%s AND username=%s
DeleteRow(store, chat_id, username) ==
    [p \in DOMAIN store \ {<<chat_id, username>>} |-> store[p]]

\* INSERT INTO <table> ... ON CONFLICT (chat_id, username) DO NOTHING
InsertRow(store, chat_id, username, value) ==
    IF <<chat_id, username>> \in DOMAIN store THEN store
    ELSE [p \in DOMAIN store \cup {<<chat_id, username>>} |->
            IF p = <<chat_id, username>> THEN value ELSE store[p]]

\* the usernames of the rows of chat_members, chat by chat
MembersOf(roles) ==
    [ch \in DOMAIN chat_members \cup {p[1] : p \in DOMAIN roles} |->
        {p[2] : p \in {q \in DOMAIN roles : q[1] = ch}}]

\* list_members over the rows a handler has committed
ListMembersOf(roles, chat_id) ==
    OrdersOf({p[2] : p \in {q \in DOMAIN roles : q[1] = chat_id}})

\* the rows of messages, message_hidden and message_delivered after
\* DELETE ... WHERE chat_id=%s; ids are not given again, and the chat of a
\* message whose row is gone is ""
DeleteMessagesOfChat(store, chat_id) ==
    [m \in DOMAIN store |-> IF store[m] = chat_id THEN "" ELSE store[m]]

InChat(message_id, chat_id) ==
    message_id \in DOMAIN messages /\ messages[message_id] = chat_id

DeleteHiddenOfChat(store, chat_id) == {row \in store : ~InChat(row[1], chat_id)}

DeleteDeliveredOfChat(store, chat_id) ==
    {row \in store : ~InChat(row.message_id, chat_id)}

\* the chat ids make_id returns, and the id _dm_key gives alice and bob
NewChatIds == {"n"}
DmChatId == "dm"

\* POST /api/chats by username with a valid title: make_id returns an id no
\* chat has; the rows of the chat, of its owner and of the owner's read
\* marker, commit, no broadcast
CreateGroupChat(username, chat_id) ==
    /\ chat_id \notin DOMAIN chats
    /\ chats' = [ch \in DOMAIN chats \cup {chat_id} |->
                   IF ch = chat_id THEN [type |-> "group", created_by |-> username]
                   ELSE chats[ch]]
    /\ LET owned == [p \in DOMAIN member_role \cup {<<chat_id, username>>} |->
                       IF p = <<chat_id, username>> THEN "owner" ELSE member_role[p]]
           roles == [p \in {q \in DOMAIN owned : q[1] = chat_id => q[2] = username} |->
                       owned[p]]
           reads == [p \in {q \in DOMAIN chat_reads : q[1] = chat_id => q[2] = username} |->
                       chat_reads[p]]
       IN  /\ member_role' = roles
           /\ chat_members' = MembersOf(roles)
           /\ chat_reads' = InsertRow(reads, chat_id, username, 0)
    /\ UNCHANGED <<chatKeep, messages, message_hidden, message_delivered, hpc, hcall,
                   htask, hlog, hwait, hnext>>

\* POST /api/chats/dm by username with the name of another user: the response
CreateDmOutcome(username, other) ==
    IF other = username THEN "400 self"
    ELSE IF other \notin users THEN "404 User not found"
    ELSE "200 ok"

\* POST /api/chats/dm that is answered 200: the chat with ON CONFLICT DO
\* NOTHING, both members with role admin and their read markers with ON
\* CONFLICT DO NOTHING, commit, no broadcast
CreateDmChat(username, other) ==
    /\ CreateDmOutcome(username, other) = "200 ok"
    /\ chats' = IF DmChatId \in DOMAIN chats THEN chats
                ELSE [ch \in DOMAIN chats \cup {DmChatId} |->
                        IF ch = DmChatId THEN [type |-> "dm", created_by |-> username]
                        ELSE chats[ch]]
    /\ LET roles == InsertRow(InsertRow(member_role, DmChatId, username, "admin"),
                              DmChatId, other, "admin")
       IN  /\ member_role' = roles
           /\ chat_members' = MembersOf(roles)
    /\ chat_reads' = InsertRow(InsertRow(chat_reads, DmChatId, username, 0),
                               DmChatId, other, 0)
    /\ UNCHANGED <<chatKeep, messages, message_hidden, message_delivered, hpc, hcall,
                   htask, hlog, hwait, hnext>>

\* POST /api/chats/{chat_id}/invite by username for other: the response
InviteOutcome(username, chat_id, other) ==
    IF other = username THEN "400 self"
    ELSE IF get_chat(chat_id) = NoChat THEN "404 Chat not found"
    ELSE IF get_chat(chat_id).type # "group" THEN "400 Invite only in group chats"
    ELSE IF require_member(chat_id, username) # "ok" THEN require_member(chat_id, username)
    ELSE IF ~can_moderate(chat_id, username) THEN "403 Only owner/admin can invite"
    ELSE IF other \notin users THEN "404 User not found"
    ELSE "200 ok"

\* the invite that is answered 200: the rows of the member and of the read
\* marker with ON CONFLICT DO NOTHING, commit, then broadcast_users([other])
\* up to its first send
InviteToGroup(r, username, chat_id, other) ==
    /\ hpc[r] = "idle"
    /\ InviteOutcome(username, chat_id, other) = "200 ok"
    /\ LET roles == InsertRow(member_role, chat_id, other, "member")
       IN  /\ member_role' = roles
           /\ chat_members' = MembersOf(roles)
    /\ chat_reads' = InsertRow(chat_reads, chat_id, other, 0)
    /\ BeginBroadcast(r, <<other>>, Event("invited", chat_id, "", 0))
    /\ UNCHANGED <<chatKeep, messages, message_hidden, message_delivered, chats, hnext>>

\* the payload of role_updated
RoleEvent(chat_id, target, role) ==
    [type |-> "role_updated", chat_id |-> chat_id, username |-> target, id |-> 0,
     role |-> role]

\* PATCH /api/chats/{chat_id}/members/role by username for target: the response
RoleOutcome(username, chat_id, target, role) ==
    IF role \notin {"admin", "member"} THEN "400 role must be admin|member"
    ELSE IF get_chat(chat_id) = NoChat \/ get_chat(chat_id).type # "group"
         THEN "404 Group chat not found"
    ELSE IF require_member(chat_id, username) # "ok" THEN require_member(chat_id, username)
    ELSE IF get_member_role(chat_id, username) # "owner" THEN "403 Only owner can change roles"
    ELSE IF target = get_chat(chat_id).created_by THEN "400 Cannot change owner role"
    ELSE IF <<chat_id, target>> \notin DOMAIN member_role THEN "404 Member not found"
    ELSE "200 ok"

\* the role update that is answered 200: the UPDATE, commit, then
\* broadcast_chat of role_updated up to its first send
UpdateMemberRole(r, username, chat_id, target, role, members) ==
    /\ hpc[r] = "idle"
    /\ RoleOutcome(username, chat_id, target, role) = "200 ok"
    /\ member_role' = [member_role EXCEPT ![<<chat_id, target>>] = role]
    /\ members \in list_members(chat_id)
    /\ BeginBroadcast(r, members, RoleEvent(chat_id, target, role))
    /\ UNCHANGED <<chatKeep, chat_members, messages, message_hidden, message_delivered,
                   chats, chat_reads, hnext>>

\* mutant: remove_member without the comparison with created_by
RemoveOutcomeAnyTarget(username, chat_id, target) ==
    IF get_chat(chat_id) = NoChat \/ get_chat(chat_id).type # "group"
    THEN "404 Group chat not found"
    ELSE IF require_member(chat_id, username) # "ok" THEN require_member(chat_id, username)
    ELSE IF ~can_moderate(chat_id, username) THEN "403 Only owner/admin can remove members"
    ELSE "200 ok"

\* DELETE /api/chats/{chat_id}/members/{target} by username: the response
RemoveOutcome(username, chat_id, target) ==
    IF get_chat(chat_id) = NoChat \/ get_chat(chat_id).type # "group"
    THEN "404 Group chat not found"
    ELSE IF require_member(chat_id, username) # "ok" THEN require_member(chat_id, username)
    ELSE IF ~can_moderate(chat_id, username) THEN "403 Only owner/admin can remove members"
    ELSE IF target = get_chat(chat_id).created_by THEN "400 Owner cannot be removed"
    ELSE "200 ok"

\* the removal that is answered 200: the DELETEs of the member's rows,
\* commit, then broadcast_chat of member_removed to the members that are
\* left, up to its first send; with nobody to send to, the handler goes on
\* to broadcast_users([target]) of chat_deleted at once
RemoveMember(r, username, chat_id, target) ==
    /\ hpc[r] = "idle"
    /\ RemoveOutcome(username, chat_id, target) = "200 ok"
    /\ LET roles == DeleteRow(member_role, chat_id, target)
           removed == Event("member_removed", chat_id, target, 0)
           deleted == Event("chat_deleted", chat_id, "", 0)
       IN  /\ member_role' = roles
           /\ chat_members' = MembersOf(roles)
           /\ \E members \in ListMembersOf(roles, chat_id) :
                 IF BroadcastFrom(removed, members, {}, USER_SOCKETS) = NoTask
                 THEN /\ BeginBroadcast(r, <<target>>, deleted)
                      /\ hnext' = hnext
                 ELSE /\ BeginBroadcast(r, members, removed)
                      /\ hnext' = [hnext EXCEPT ![r] =
                                      [usernames |-> <<target>>, ev |-> deleted]]
    /\ chat_reads' = DeleteRow(chat_reads, chat_id, target)
    /\ UNCHANGED <<chatKeep, messages, message_hidden, message_delivered, chats>>

\* a handler whose broadcast has returned goes on to its next broadcast, up
\* to the first send of that one
NextBroadcast(r) ==
    /\ hpc[r] = "done"
    /\ hnext[r] # NoPending
    /\ BeginBroadcast(r, hnext[r].usernames, hnext[r].ev)
    /\ hnext' = [hnext EXCEPT ![r] = NoPending]
    /\ UNCHANGED <<chatKeep, chat_members, messages, message_hidden, message_delivered,
                   chats, member_role, chat_reads>>

\* DELETE /api/chats/{chat_id} by username: the response
DeleteChatOutcome(username, chat_id) ==
    IF get_chat(chat_id) = NoChat THEN "404 Chat not found"
    ELSE IF require_member(chat_id, username) # "ok" THEN require_member(chat_id, username)
    ELSE IF get_chat(chat_id).type = "group" /\ get_chat(chat_id).created_by # username
         THEN "403 Only creator can delete group"
    ELSE "200 ok"

\* the deletion that is answered 200. A group: the DELETEs of the rows of
\* the chat's messages, read markers, members and of the chat, commit, then
\* broadcast_chat of chat_deleted, whose list_members reads the committed
\* rows. A dm: the DELETEs of the caller's member row and read marker,
\* commit, the DELETEs of everything when no member is left, commit, then
\* broadcast_chat of chat_deleted
DeleteChat(r, username, chat_id) ==
    /\ hpc[r] = "idle"
    /\ DeleteChatOutcome(username, chat_id) = "200 ok"
    /\ LET roles == IF get_chat(chat_id).type = "group"
                    THEN DeleteRowsOfChat(member_role, chat_id)
                    ELSE DeleteRow(member_role, chat_id, username)
           gone == ListMembersOf(roles, chat_id) = {<<>>}
       IN  /\ member_role' = roles
           /\ chat_members' = MembersOf(roles)
           /\ chat_reads' = IF gone THEN DeleteRowsOfChat(chat_reads, chat_id)
                            ELSE DeleteRow(chat_reads, chat_id, username)
           /\ chats' = IF gone THEN [ch \in DOMAIN chats \ {chat_id} |-> chats[ch]]
                       ELSE chats
           /\ messages' = IF gone THEN DeleteMessagesOfChat(messages, chat_id) ELSE messages
           /\ message_hidden' = IF gone THEN DeleteHiddenOfChat(message_hidden, chat_id)
                                ELSE message_hidden
           /\ message_delivered' =
                 IF gone THEN DeleteDeliveredOfChat(message_delivered, chat_id)
                 ELSE message_delivered
           /\ \E members \in ListMembersOf(roles, chat_id) :
                 BeginBroadcast(r, members, Event("chat_deleted", chat_id, "", 0))
    /\ UNCHANGED <<chatKeep, hnext>>

\* the handler of request r returns its response
RequestReturn(r) ==
    /\ hpc[r] = "done"
    /\ hnext[r] = NoPending
    /\ hpc' = [hpc EXCEPT ![r] = "idle"]
    /\ UNCHANGED <<chatKeep, chat_members, messages, message_hidden, message_delivered,
                   chats, member_role, chat_reads, hcall, htask, hlog, hwait, hnext>>

\* the payload of read
ReadEvent(chat_id, username, last_id) ==
    [type |-> "read", chat_id |-> chat_id, username |-> username, id |-> 0,
     last_read_id |-> last_id]

\* mutant: the upsert of the read marker with SET last_read_id =
\* EXCLUDED.last_read_id
UpsertReadOverwrite(store, chat_id, username, last_id) ==
    [p \in DOMAIN store \cup {<<chat_id, username>>} |->
        IF p = <<chat_id, username>> THEN last_id ELSE store[p]]

\* INSERT INTO chat_reads ... ON CONFLICT (chat_id, username) DO UPDATE SET
\*   last_read_id = GREATEST(chat_reads.last_read_id, EXCLUDED.last_read_id)
UpsertRead(store, chat_id, username, last_id) ==
    [p \in DOMAIN store \cup {<<chat_id, username>>} |->
        IF p # <<chat_id, username>> THEN store[p]
        ELSE IF p \in DOMAIN store THEN Max(store[p], last_id)
        ELSE last_id]

\* POST /api/chats/{chat_id}/read?last_id= by username: the response
MarkReadOutcome(username, chat_id, last_id) ==
    IF chat_id = "" \/ last_id <= 0 THEN "400 chat_id + last_id required"
    ELSE IF require_member(chat_id, username) # "ok" THEN require_member(chat_id, username)
    ELSE "200 ok"

\* the mark_read that is answered 200: the upsert, commit, then
\* broadcast_chat of read with the last_id of the request, up to its first
\* send
MarkRead(r, username, chat_id, last_id, members) ==
    /\ hpc[r] = "idle"
    /\ MarkReadOutcome(username, chat_id, last_id) = "200 ok"
    /\ chat_reads' = UpsertRead(chat_reads, chat_id, username, last_id)
    /\ members \in list_members(chat_id)
    /\ BeginBroadcast(r, members, ReadEvent(chat_id, username, last_id))
    /\ UNCHANGED <<chatKeep, chat_members, messages, message_hidden, message_delivered,
                   chats, member_role, hnext>>

\* chat g of alice, its creator and owner, and bob, a member; message 1 of g
\* sent by alice; both have an account
InitChat ==
    /\ now = 0
    /\ users = Usernames
    /\ refresh_tokens = <<>>
    /\ nextId = 0
    /\ rpc = [p \in Workers |-> "idle"]
    /\ rrow = [p \in Workers |-> NoRow]
    /\ chat_members = [ch \in Chats |-> Usernames]
    /\ messages = <<"g">>
    /\ message_hidden = {}
    /\ message_delivered = {}
    /\ message_cols = SentBy("alice")
    /\ InitHandlers(PushConns)

\* the chat ids a request names: g, the id of a new group, the id of the dm
\* of alice and bob, and an id no chat has
AdminChats == Chats \cup NewChatIds \cup {DmChatId, "x"}
RoleParams == {"admin", "member", "owner"}

\* alice and bob create, invite, change roles, remove and delete, one
\* request after the other, while nobody is connected
NextAdmin ==
    \/ \E u \in Usernames, ch \in NewChatIds : CreateGroupChat(u, ch)
    \/ \E u \in Usernames, other \in ChatUsers : CreateDmChat(u, other)
    \/ \E u \in Usernames, ch \in AdminChats, other \in ChatUsers :
          InviteToGroup("r1", u, ch, other)
    \/ \E u \in Usernames, ch \in AdminChats, target \in ChatUsers, role \in RoleParams :
          \E members \in list_members(ch) : UpdateMemberRole("r1", u, ch, target, role, members)
    \/ \E u \in Usernames, ch \in AdminChats, target \in ChatUsers :
          RemoveMember("r1", u, ch, target)
    \/ \E u \in Usernames, ch \in AdminChats : DeleteChat("r1", u, ch)
    \/ RequestReturn("r1")

SpecAdmin == InitChat /\ [][NextAdmin]_vars

\* two requests that remove a member or delete a chat, the group g or the
\* dm of alice and bob, while a connection of alice and one of bob open
NextChatPush ==
    \/ \E c \in HttpConns : Connect(c, TokenOf(c))
    \/ \E c \in HttpConns : Registered(c, NoSince, TRUE)
    \/ \E u \in Usernames, other \in Usernames : CreateDmChat(u, other)
    \/ \E r \in Reqs, u \in Usernames, target \in Usernames : RemoveMember(r, u, "g", target)
    \/ \E r \in Reqs : NextBroadcast(r)
    \/ \E r \in Reqs, u \in Usernames, ch \in {"g", DmChatId} : DeleteChat(r, u, ch)
    \/ \E r \in Reqs, target \in HttpConns : RequestSend(r, target)

SpecChatPush == InitChat /\ [][NextChatPush]_vars

\* the values of last_id
MaxRead == 2

\* two requests of mark_read, by alice, a member of g, or by bob, a member
\* of g and d, while a connection of alice and one of bob open
NextRead ==
    \/ \E c \in HttpConns : Connect(c, TokenOf(c))
    \/ \E c \in HttpConns : Registered(c, NoSince, TRUE)
    \/ \E r \in Reqs, u \in Usernames, ch \in PushChats, last_id \in 1 .. MaxRead :
          \E members \in list_members(ch) : MarkRead(r, u, ch, last_id, members)
    \/ \E r \in Reqs, target \in HttpConns : RequestSend(r, target)

SpecRead == InitHttp /\ [][NextRead]_vars

(***************************************************************************)
(* Claims about the refresh-token store                                    *)
(***************************************************************************)
\* the row of rt exists and is not expired at time ts
Unexpired(store, rt, ts) == rt \in DOMAIN store /\ ~(store[rt].expires_at < ts)

\* rt was rotated before: its row is revoked and names a successor
Rotated(store, rt) ==
    rt \in DOMAIN store /\ store[rt].revoked /\ store[rt].replaced_by # NULL

\* worker p commits the branch it is in
Commits(p, branch) == rpc[p] = branch /\ rpc'[p] = "idle"

\* C1: a request (not rate-limited) goes on to rotate exactly when the
\* presented token exists, is unexpired and is not revoked, and the commit of
\* the rotation marks the presented token
\* revoked with replaced_by set to the newly created token and creates that
\* token as a non-revoked, non-compromised row with the presented token's
\* username and session_id, leaving every other row as it was.
C1_RotationStarts ==
    \A rt \in Cookies :
      (Unexpired(refresh_tokens, rt, now) /\ ~refresh_tokens[rt].revoked)
      <=> RefreshOutcome(refresh_tokens, rt, now, FALSE) = "rotate"

C1_RotationStep ==
    \A p \in Workers :
      /\ (rpc[p] = "idle" /\ rpc'[p] = "rotate")
           => (Unexpired(refresh_tokens, rrow'[p].rt, now)
               /\ ~refresh_tokens[rrow'[p].rt].revoked)
      /\ Commits(p, "rotate")
           => LET rt == rrow[p].rt
              IN  \E new \in DOMAIN refresh_tokens' \ DOMAIN refresh_tokens :
                    /\ DOMAIN refresh_tokens' = DOMAIN refresh_tokens \cup {new}
                    /\ refresh_tokens'[rt].revoked
                    /\ refresh_tokens'[rt].replaced_by = new
                    /\ ~refresh_tokens'[new].revoked
                    /\ ~refresh_tokens'[new].compromised
                    /\ refresh_tokens'[new].replaced_by = NULL
                    /\ refresh_tokens'[new].username = refresh_tokens[rt].username
                    /\ refresh_tokens'[new].session_id = refresh_tokens[rt].session_id
                    /\ \A t \in DOMAIN refresh_tokens \ {rt} :
                         refresh_tokens'[t] = refresh_tokens[t]

C1_Rotation == []C1_RotationStarts /\ [][C1_RotationStep]_vars

\* a rotation has committed: a revoked token names an active successor of the
\* same user and session
C1_Witness ==
    \E rt \in DOMAIN refresh_tokens :
      /\ Rotated(refresh_tokens, rt)
      /\ LET new == refresh_tokens[rt].replaced_by
         IN  /\ ~refresh_tokens[new].revoked
             /\ refresh_tokens[new].session_id = refresh_tokens[rt].session_id
             /\ refresh_tokens[new].username = refresh_tokens[rt].username

\* C2: presenting an unexpired token that is revoked with replaced_by set takes
\* the reuse branch (401 Refresh token reuse detected), whose commit sets
\* revoked and compromised on every row of that username that was not revoked
\* and creates no token.
C2_ReuseStarts ==
    \A rt \in Cookies :
      (Unexpired(refresh_tokens, rt, now) /\ Rotated(refresh_tokens, rt))
      <=> RefreshOutcome(refresh_tokens, rt, now, FALSE) = "reuse"

C2_ReuseStep ==
    \A p \in Workers :
      /\ (rpc[p] = "idle" /\ rpc'[p] = "reuse")
           => (Unexpired(refresh_tokens, rrow'[p].rt, now)
               /\ Rotated(refresh_tokens, rrow'[p].rt))
      /\ Commits(p, "reuse")
           => /\ DOMAIN refresh_tokens' = DOMAIN refresh_tokens
              /\ nextId' = nextId
              /\ \A t \in DOMAIN refresh_tokens :
                   (refresh_tokens[t].username = refresh_tokens[rrow[p].rt].username
                      /\ ~refresh_tokens[t].revoked)
                   => (refresh_tokens'[t].revoked /\ refresh_tokens'[t].compromised)

C2_Reuse == []C2_ReuseStarts /\ [][C2_ReuseStep]_vars

\* the cascade has hit two rows of one user at once
C2_Witness ==
    \E rt, t1, t2 \in DOMAIN refresh_tokens :
      /\ Rotated(refresh_tokens, rt) /\ ~refresh_tokens[rt].compromised
      /\ t1 # t2
      /\ \A t \in {t1, t2} :
           /\ refresh_tokens[t].username = refresh_tokens[rt].username
           /\ refresh_tokens[t].revoked /\ refresh_tokens[t].compromised

\* C3: at most one non-revoked token exists per (username, session_id) chain.
C3_OneActivePerChain ==
    \A t1, t2 \in Active(refresh_tokens) :
      (refresh_tokens[t1].username = refresh_tokens[t2].username
         /\ refresh_tokens[t1].session_id = refresh_tokens[t2].session_id)
      => t1 = t2

\* C4 as claimed: after the reuse branch commits, every other row of that
\* username is revoked and compromised, whatever its state was before.
C4_OriginalStep ==
    \A p \in Workers :
      Commits(p, "reuse")
      => \A t \in DOMAIN refresh_tokens \ {rrow[p].rt} :
           refresh_tokens[t].username = refresh_tokens[rrow[p].rt].username
           => (refresh_tokens'[t].revoked /\ refresh_tokens'[t].compromised)

C4_Original == [][C4_OriginalStep]_vars

\* C4 amended: after the reuse branch commits, every other row of that
\* username is revoked; compromised is set on the rows that were not revoked
\* before, and rows that were already revoked keep the compromised flag they
\* had.
C4_AmendedStep ==
    \A p \in Workers :
      Commits(p, "reuse")
      => \A t \in DOMAIN refresh_tokens \ {rrow[p].rt} :
           refresh_tokens[t].username = refresh_tokens[rrow[p].rt].username
           => /\ refresh_tokens'[t].revoked
              /\ refresh_tokens'[t].compromised
                   = (refresh_tokens[t].compromised \/ ~refresh_tokens[t].revoked)

C4_Amended == [][C4_AmendedStep]_vars

\* the cascade has run for a user who also has an earlier-revoked row, which
\* stays uncompromised
C4_Witness ==
    \E t1, t2 \in DOMAIN refresh_tokens :
      /\ t1 # t2
      /\ refresh_tokens[t1].username = refresh_tokens[t2].username
      /\ refresh_tokens[t1].compromised
      /\ refresh_tokens[t2].revoked /\ ~refresh_tokens[t2].compromised
      /\ \E rt \in DOMAIN refresh_tokens \ {t1, t2} :
           /\ Rotated(refresh_tokens, rt)
           /\ refresh_tokens[rt].username = refresh_tokens[t1].username

\* a request of worker p presenting rt (not rate-limited) changes nothing
RefreshChangesNothing(rt) ==
    \A p \in Workers : ~ENABLED <<RefreshBegin(p, rt, FALSE)>>_vars

\* C5: a token revoked with replaced_by null (logout) fails rotation with
\* 401 Invalid refresh token, never takes the reuse branch, and the request
\* changes no row.
C5_LogoutRevoked ==
    \A rt \in DOMAIN refresh_tokens :
      (refresh_tokens[rt].revoked /\ refresh_tokens[rt].replaced_by = NULL)
      => /\ RefreshOutcome(refresh_tokens, rt, now, FALSE)
              = "401 Invalid refresh token"
         /\ RefreshChangesNothing(rt)

\* an unexpired token was revoked by logout while the user has another active
\* token
C5_Witness ==
    \E rt, t \in DOMAIN refresh_tokens :
      /\ Unexpired(refresh_tokens, rt, now)
      /\ refresh_tokens[rt].revoked /\ refresh_tokens[rt].replaced_by = NULL
      /\ ~refresh_tokens[rt].compromised
      /\ refresh_tokens[t].username = refresh_tokens[rt].username
      /\ ~refresh_tokens[t].revoked /\ Unexpired(refresh_tokens, t, now)

\* C6: a presented token that does not exist or has expires_at < now fails
\* with 401 Invalid refresh token and the request changes no row, also when
\* the expired token is revoked with replaced_by set.
C6_MissingOrExpired ==
    \A rt \in Cookies \ {NULL} :
      (rt \notin DOMAIN refresh_tokens \/ refresh_tokens[rt].expires_at < now)
      => /\ RefreshOutcome(refresh_tokens, rt, now, FALSE)
              = "401 Invalid refresh token"
         /\ RefreshChangesNothing(rt)

\* an expired token is revoked with replaced_by set while the user has an
\* active token the cascade would have hit
C6_Witness ==
    \E rt, t \in DOMAIN refresh_tokens :
      /\ refresh_tokens[rt].expires_at < now
      /\ Rotated(refresh_tokens, rt)
      /\ refresh_tokens[t].username = refresh_tokens[rt].username
      /\ ~refresh_tokens[t].revoked

\* C7: logout is idempotent, changes nothing for an unknown or absent token,
\* and otherwise changes exactly the revoked field of the presented row.
C7_LogoutIdempotent ==
    \A rt \in Cookies :
      LET once == LogoutStore(refresh_tokens, rt)
      IN  /\ LogoutStore(once, rt) = once
          /\ DOMAIN once = DOMAIN refresh_tokens
          /\ rt \notin DOMAIN refresh_tokens => once = refresh_tokens
          /\ \A t \in DOMAIN refresh_tokens :
               once[t] = IF t = rt
                         THEN [refresh_tokens[t] EXCEPT !.revoked = TRUE]
                         ELSE refresh_tokens[t]

\* a logout has revoked one token of a user and a rotated one of the same
\* user is still there to be logged out again
C7_Witness ==
    \E rt, t \in DOMAIN refresh_tokens :
      /\ refresh_tokens[rt].revoked /\ refresh_tokens[rt].replaced_by = NULL
      /\ ~refresh_tokens[rt].compromised
      /\ t # rt
      /\ refresh_tokens[t].username = refresh_tokens[rt].username
      /\ Rotated(refresh_tokens, t)

(***************************************************************************)
(* Claims about the WebSocket handler and the connection registry          *)
(***************************************************************************)
\* the connections of the registry
RegisteredConns == UNION {USER_SOCKETS[u] : u \in DOMAIN USER_SOCKETS}

\* a token jwt_sign did not produce for this instant: absent, malformed, with
\* a signature that is not the HMAC of its first two parts, or expired
Unauthorized(tok) ==
    \/ tok.form \in {"missing", "nodots", "badsig", "nonascii"}
    \/ tok.form = "signed" /\ tok.exp < now

\* the receive loop of ws_user (the Active state)
InLoop(pc) == pc \in {"recv", "bcast"}

\* C8: a connect whose token is missing, has a bad signature or is expired is
\* closed with 4401 without being accepted, is never in the registry and is
\* never sent an event.
C8_UnauthorizedClosed ==
    \A c \in Conns :
      (wpc[c] # "new" /\ Unauthorized(wtok[c])) =>
        /\ wpc[c] = "rejected"
        /\ wcode[c] = 4401
        /\ c \notin RegisteredConns
        /\ sent[c] = <<>>

\* C9: no username maps to an empty set, and a user counts zero connections
\* exactly when the user has no entry in the registry.
C9_NoEmptyEntry ==
    /\ \A u \in DOMAIN USER_SOCKETS : USER_SOCKETS[u] # {}
    /\ \A u \in Usernames :
         /\ active_connections_count(u) = 0 <=> u \notin DOMAIN USER_SOCKETS
         /\ u \in DOMAIN USER_SOCKETS <=> \E c \in Conns : c \in SocketsOf(USER_SOCKETS, u)

\* one user's last connection has been removed while the other user's
\* connection is still registered
C9_Witness ==
    \E c, d \in Conns :
      /\ wpc[c] \in {"closed", "failed"}
      /\ wuser[c] \notin DOMAIN USER_SOCKETS
      /\ d \in SocketsOf(USER_SOCKETS, wuser[d])

\* C10: a handler that is out of its receive loop (after a disconnect, a
\* heartbeat-timeout close or an exception of a frame) has no connection in
\* the registry, and the step that leaves the loop is the one that removes it.
C10_ExitedIsUnregistered ==
    \A c \in Conns : wpc[c] \in {"closed", "failed"} => c \notin RegisteredConns

C10_ExitStep ==
    \A c \in Conns :
      (InLoop(wpc[c]) /\ ~InLoop(wpc'[c])) =>
        /\ wpc'[c] \in {"closed", "failed"}
        /\ c \in RegisteredConns
        /\ c \notin UNION {USER_SOCKETS'[u] : u \in DOMAIN USER_SOCKETS'}

C10_ExitUnregisters == []C10_ExitedIsUnregistered /\ [][C10_ExitStep]_vars

\* one handler has left its loop after the heartbeat closed the connection
\* with 1011, another after a frame raised
C10_Witness ==
    \E c, d \in Conns :
      /\ wpc[c] = "closed" /\ wcode[c] = 1011
      /\ wpc[d] = "failed"

\* the frames the claim calls unrecognized or malformed
Malformed == {f \in Frames : f.kind \in {"notjson", "nonobject", "unknown", "illtyped"}}

\* C11: a frame that is unrecognized or malformed is silently ignored: the
\* handler stays in its receive loop, the connection stays registered and
\* nothing is sent to any connection.
C11_MalformedStep ==
    \A c \in Conns, f \in Malformed :
      (FrameHandled(c, f) \/ FrameRaises(c, f)) =>
        /\ wpc'[c] = "recv"
        /\ c \in UNION {USER_SOCKETS'[u] : u \in DOMAIN USER_SOCKETS'}
        /\ sent' = sent

C11_MalformedIgnored == [][C11_MalformedStep]_vars

(***************************************************************************)
(* Claims about broadcasts                                                 *)
(***************************************************************************)
Range(f) == {f[i] : i \in DOMAIN f}

\* the connections the broadcast of request r has called ws_send_safe on
Targeted(r) == {hlog[r][i].ws : i \in DOMAIN hlog[r]}

\* the connections on which a send of the broadcast of r reached the client
Delivered(r) == {hlog[r][i].ws : i \in {k \in DOMAIN hlog[r] : hlog[r][k].ok}}

\* the connections that were registered when r called broadcast_users and
\* still are (a connection is registered once and removed once)
Throughout(r) == hcall[r].reg \cap RegisteredConns

\* how many times ev is in the events delivered to connection c
Times(c, ev) == Cardinality({k \in DOMAIN sent[c] : sent[c][k] = ev})

\* C12: whatever the username list, with repetitions or not, a call of
\* broadcast_users sends to no connection twice, sends only to connections of
\* the named users, sends once to every connection of a named user that was
\* registered for the whole call, and each client receives the event as
\* many times (0 or 1) as a send reached it.
C12_Dedupe ==
    \A r \in Reqs :
      /\ \A i, j \in DOMAIN hlog[r] : hlog[r][i].ws = hlog[r][j].ws => i = j
      /\ \A c \in Targeted(r) : wuser[c] \in Range(hcall[r].usernames)
      /\ hpc[r] = "done" =>
           /\ \A c \in Throughout(r) :
                wuser[c] \in Range(hcall[r].usernames) => c \in Targeted(r)
           /\ \A c \in DOMAIN sent :
                Times(c, hcall[r].ev) = IF c \in Delivered(r) THEN 1 ELSE 0

\* a call with the list alice, bob, alice has returned after one send to each
\* of alice's two connections and one to bob's
C12_Witness ==
    /\ hpc["r1"] = "done"
    /\ hcall["r1"].usernames = <<"alice", "bob", "alice">>
    /\ Delivered("r1") = {"c1", "c2", "c3"}
    /\ Len(hlog["r1"]) = 3

\* the connections of the members of chat ch
MemberConns(ch) == {c \in DOMAIN wuser : is_member(ch, wuser[c])}

\* C13: the 'message' event of a text message sent by a member of a chat is
\* sent only to connections of members of the chat, is received on no
\* connection of a non-member, and once the broadcast has returned it has
\* been sent to every connection of every member (the sender's included)
\* that was registered during the whole broadcast: with alice's two
\* connections and bob's one that is exactly 3 sends.
C13_MessageFanout ==
    \A r \in Reqs :
      hcall[r].ev.type = "message" =>
        LET ev == hcall[r].ev
        IN  /\ is_member(ev.chat_id, ev.username)
            /\ Targeted(r) \subseteq MemberConns(ev.chat_id)
            /\ \A c \in DOMAIN sent : Times(c, ev) > 0 => c \in MemberConns(ev.chat_id)
            /\ hpc[r] = "done" =>
                 /\ Throughout(r) \cap MemberConns(ev.chat_id) \subseteq Targeted(r)
                 /\ (Throughout(r) = {"c1", "c2", "c3"} /\ ev.chat_id = "g")
                       => Len(hlog[r]) = 3

\* alice's message to chat g has been pushed to her two connections and to
\* bob's one, 3 sends
C13_Witness ==
    /\ hpc["r1"] = "done"
    /\ hcall["r1"].ev = Event("message", "g", "alice", 2)
    /\ Throughout("r1") = {"c1", "c2", "c3"}
    /\ Delivered("r1") = {"c1", "c2", "c3"}
    /\ Len(hlog["r1"]) = 3
    /\ \A c \in PushConns : sent[c] = <<Event("message", "g", "alice", 2)>>

\* bob's message to chat d, of which alice is not a member, has been pushed
\* while alice's two connections were registered
C13_NonMemberWitness ==
    /\ hpc["r1"] = "done"
    /\ hcall["r1"].ev = Event("message", "d", "bob", 2)
    /\ Throughout("r1") = {"c1", "c2", "c3"}
    /\ Delivered("r1") = {"c3"}

\* the broadcast of request r has had a send fail
SendFailed(r) == \E i \in DOMAIN hlog[r] : ~hlog[r][i].ok

\* C14: no broadcast ends with an error, and a broadcast in which a send
\* failed goes on: when it has returned, every open connection of a named
\* user that was registered during the whole broadcast has received the
\* event once.
C14_FailureSwallowed ==
    \A r \in Reqs :
      /\ hpc[r] \in {"idle", "bcast", "done"}
      /\ (hpc[r] = "done" /\ SendFailed(r)) =>
           \A c \in Throughout(r) :
             (wuser[c] \in Range(hcall[r].usernames) /\ alive[c]) =>
                c \in Delivered(r) /\ Times(c, hcall[r].ev) = 1

\* the first send of a broadcast failed, two later sends reached their
\* clients, and the broadcast has returned
C14_Witness ==
    /\ hpc["r1"] = "done"
    /\ Len(hlog["r1"]) = 3
    /\ ~hlog["r1"][1].ok
    /\ hlog["r1"][2].ok /\ hlog["r1"][3].ok
    /\ \A c \in Delivered("r1") : sent[c] = <<hcall["r1"].ev>>

(***************************************************************************)
(* Claims about concurrent broadcasts and the replay                       *)
(***************************************************************************)
\* the live broadcasts: request r issued its broadcast before request q when
\* its message has the smaller id (ids are given at the INSERT, and the
\* handler runs from the INSERT to the start of broadcast_chat without an
\* await)
IssuedBefore(r, q) ==
    /\ hcall[r].ev.type = "message" /\ hcall[q].ev.type = "message"
    /\ hcall[r].ev.id < hcall[q].ev.id

\* the place of the send of request r in what connection c received
\* (0: not received from r)
ReceivedAt(r, c) ==
    IF \E k \in DOMAIN sent[c] : sent[c][k] = hcall[r].ev
    THEN CHOOSE k \in DOMAIN sent[c] : sent[c][k] = hcall[r].ev
    ELSE 0

\* C15: a connection that has received the events of two broadcasts has
\* received them in the order in which the broadcasts were issued.
C15_IssueOrder ==
    \A r, q \in Reqs : \A c \in DOMAIN sent :
      (IssuedBefore(r, q) /\ c \in Delivered(r) /\ c \in Delivered(q))
        => ReceivedAt(r, c) < ReceivedAt(q, c)

\* C16: a connection in its replay is in the registry, and a broadcast to
\* its user issued while the replay is in progress finds it there: when the
\* broadcast has returned, the connection, unless it was unregistered in
\* between, has been sent the event, and has received it if it is open.
C16_ReplayRegistered ==
    /\ \A c \in DOMAIN wpc : wpc[c] = "replay" => c \in RegisteredConns
    /\ \A r \in Reqs : \A c \in hcall[r].replaying :
         /\ c \in hcall[r].reg
         /\ (hpc[r] = "done" /\ c \in RegisteredConns
               /\ wuser[c] \in Range(hcall[r].usernames)) =>
              /\ c \in Targeted(r)
              /\ alive[c] => Times(c, hcall[r].ev) = 1

\* a message was posted while connection c1 was suspended in its replay, and
\* c1 has received both the replayed message and the live one
C16_Witness ==
    \E r \in Reqs :
       /\ hpc[r] = "done"
       /\ "c1" \in hcall[r].replaying
       /\ "c1" \in Delivered(r)
       /\ wpc["c1"] = "recv"
       /\ \E k \in DOMAIN sent["c1"] : sent["c1"][k].username = ""

\* a connection has received the same message id twice, once replayed and
\* once live
C16_TwiceWitness ==
    \E r \in Reqs : \E c \in Delivered(r) : \E k \in DOMAIN sent[c] :
       sent[c][k] = Event("message", hcall[r].ev.chat_id, "", hcall[r].ev.id)

\* the ids of the messages above the watermark since, in the chats of user u,
\* that u has not hidden
VisibleAbove(u, since) ==
    {m \in DOMAIN messages :
        m > since /\ is_member(messages[m], u) /\ <<m, u>> \notin message_hidden}

\* the elements of a set of numbers in ascending order
Ascending(S) ==
    CHOOSE q \in [1 .. Cardinality(S) -> S] : \A i, j \in DOMAIN q : i < j => q[i] < q[j]

\* the 'message' events of a sequence of message ids
MessageEvents(ids) == [i \in DOMAIN ids |-> Event("message", messages[ids[i]], "", ids[i])]

\* the events a connection of u must be replayed for the watermark since
ReplayOf(u, since) ==
    IF since > 0 THEN MessageEvents(Ascending(VisibleAbove(u, since))) ELSE <<>>

\* the first n elements of a sequence
Prefix(q, n) == SubSeq(q, 1, Min(Len(q), n))

Positive(since) == since.kind = "int" /\ since.val > 0

\* what the client of an open connection has received and what its replay has
\* yet to send make up the replay of its watermark, followed only by events
\* that answer its frames
C17_ReplayState ==
    \A c \in DOMAIN wpc :
      (wpc[c] \in {"replay", "recv", "bcast"} /\ alive[c]) =>
        LET whole == ReplayOf(wuser[c], replay_since[c])
            done == Len(whole) - Len(replayq[c])
        IN  /\ done >= 0
            /\ Prefix(sent[c], done) \o MessageEvents(replayq[c]) = whole
            /\ wpc[c] = "replay" => Len(sent[c]) = done /\ replayq[c] # <<>>
            /\ wpc[c] # "replay" => replayq[c] = <<>>
            /\ \A k \in DOMAIN sent[c] : k > done => sent[c][k].type # "message"

\* the registration step turns the since parameter into the replay, and a
\* frame is processed only when the replay has been sent
C17_ReplayStep ==
    \A c \in DOMAIN wpc :
      /\ \A since \in SinceParams :
           Registered(c, since, TRUE) =>
             IF Positive(since) /\ VisibleAbove(wuser[c], since.val) # {}
             THEN /\ wpc'[c] = "replay"
                  /\ replay_since'[c] = since.val
                  /\ MessageEvents(replayq'[c]) = ReplayOf(wuser[c], since.val)
             ELSE /\ wpc'[c] = "recv"
                  /\ replayq'[c] = <<>> /\ replay_since'[c] = 0
                  /\ sent'[c] = <<>>
      /\ (\/ FramePong(c)
          \/ \E ch \in DOMAIN chat_members : \E members \in list_members(ch) :
                FrameTyping(c, ch, members))
           => replayq[c] = <<>> /\ wpc[c] = "recv"

C17_HiddenWitness ==
    /\ wpc["c1"] = "recv" /\ alive["c1"]
    /\ replay_since["c1"] = 1
    /\ Len(messages) = 4
    /\ messages[3] = "g" /\ <<3, "alice">> \in message_hidden
    /\ sent["c1"] = <<Event("message", "g", "", 2), Event("message", "h", "", 4)>>

(***************************************************************************)
(* Claims about call signaling and typing                                  *)
(***************************************************************************)
\* a member of chat ch other than u has a connection in the registry
OthersOnline(ch, u) ==
    \E v \in chat_members[ch] \ {u} : active_connections_count(v) > 0

\* the registered connections of the members of ch other than u
OtherMemberConns(ch, u) ==
    {x \in RegisteredConns : wuser[x] # u /\ is_member(ch, wuser[x])}

\* the connections the loop of connection handler c has yet to send to, as
\* the registry stands
Pending(c, tk) ==
    tk.snap \cup UNION {SocketsOf(USER_SOCKETS, tk.rest[i]) : i \in DOMAIN tk.rest}

IsOfflineTimeout(e) == e.type = "call_timeout" /\ e.reason = "offline"

\* a send of the loop of handler c delivers the event of the loop to its
\* target, if that is open, and to no other connection
SendDelivers(c) ==
    \A target \in DOMAIN sent :
      BroadcastSend(c, target) =>
        /\ sent'[target] = IF alive[target] THEN Append(sent[target], task[c].ev)
                           ELSE sent[target]
        /\ \A x \in DOMAIN sent \ {target} : sent'[x] = sent[x]
        /\ Pending(c, task'[c]) = Pending(c, task[c]) \ {target}

\* a call_offer of a member for which no other member is connected starts
\* the sends of a call_timeout with reason offline to the connections of the
\* caller, and each send delivers it
C18_OfflineStep ==
    \A c \in DOMAIN wpc :
      /\ \A ch \in DOMAIN chat_members : \A members \in list_members(ch) :
           (wpc[c] = "recv" /\ wpc'[c] # "recv" /\ task'[c].ev.chat_id = ch
              /\ FrameCall(c, "call_offer", ch, members) /\ ~OthersOnline(ch, wuser[c])) =>
              /\ wpc'[c] = "bcast"
              /\ task'[c].ev = CallEvent("call_timeout", ch, wuser[c], "offline")
              /\ Pending(c, task'[c]) = SocketsOf(USER_SOCKETS, wuser[c])
              /\ sent' = sent
      /\ (wpc[c] = "bcast" /\ IsOfflineTimeout(task[c].ev)) => SendDelivers(c)

\* the handler of c answers a call_offer in chat ch by starting a loop of sends
OfferStartsSends(c, ch) ==
    \E members \in list_members(ch) :
       FrameCall(c, "call_offer", ch, members) /\ wpc'[c] = "bcast"

\* a call_offer of a member for which no other member is connected does
\* start sends; a call_timeout with reason offline is sent to and received
\* by connections of the caller only
C18_OfflineState ==
    /\ \A c \in DOMAIN wpc : \A ch \in DOMAIN chat_members :
         (wpc[c] = "recv" /\ alive[c] /\ is_member(ch, wuser[c])
            /\ ~OthersOnline(ch, wuser[c])) => ENABLED OfferStartsSends(c, ch)
    /\ \A c \in DOMAIN wpc :
         (wpc[c] = "bcast" /\ IsOfflineTimeout(task[c].ev)) =>
            \A x \in Pending(c, task[c]) : wuser[x] = wuser[c]
    /\ \A x \in DOMAIN sent : \A k \in DOMAIN sent[x] :
         IsOfflineTimeout(sent[x][k]) => wuser[x] = sent[x][k].username

\* C18: a call_offer frame of a chat member for which no other member of the
\* chat has a connection in the registry produces a call_timeout event with
\* reason offline on the caller's connections and no event on a connection
\* of another user.
C18_OfflineTimeout == [](C18_OfflineState) /\ [][C18_OfflineStep]_vars

\* alice offered a call in chat g while bob had no connection: her two
\* connections have received the call_timeout, bob's later one nothing
C18_Witness ==
    /\ wpc["c1"] = "recv"
    /\ sent["c1"] = <<CallEvent("call_timeout", "g", "alice", "offline")>>
    /\ sent["c2"] = <<CallEvent("call_timeout", "g", "alice", "offline")>>
    /\ sent["c3"] = <<>>
    /\ "c3" \in RegisteredConns

\* the tag under which a call frame of type t is relayed
RelayedTag(t) ==
    CASE t = "call_offer" -> "incoming_call"
      [] t = "call_accept" -> "call_answer"
      [] OTHER -> t

RelayedTags == {RelayedTag(t) : t \in CallTypes}

IsRelayed(e) == e.type \in RelayedTags /\ e.reason = ""

\* a call frame is served only for a member; with a recipient online, or of
\* a type other than call_offer, it starts the sends of the event under its
\* relayed tag to the registered connections of the other members, and each
\* send delivers it
C19_RelayStep ==
    \A c \in DOMAIN wpc :
      /\ (wpc[c] = "recv" /\ task'[c] # task[c]) =>
         \A t \in CallTypes, ch \in DOMAIN chat_members : \A members \in list_members(ch) :
           (task'[c].ev.chat_id = ch /\ task'[c].ev.type \in {RelayedTag(t), "call_timeout"}
              /\ FrameCall(c, t, ch, members)) =>
             /\ is_member(ch, wuser[c])
             /\ (OthersOnline(ch, wuser[c]) \/ t # "call_offer") =>
                  /\ sent' = sent
                  /\ Pending(c, task'[c]) = OtherMemberConns(ch, wuser[c])
                  /\ IF OtherMemberConns(ch, wuser[c]) = {}
                     THEN wpc'[c] = "recv"
                     ELSE /\ wpc'[c] = "bcast"
                          /\ task'[c].ev = CallEvent(RelayedTag(t), ch, wuser[c], "")
      /\ (wpc[c] = "bcast" /\ IsRelayed(task[c].ev)) => SendDelivers(c)

\* a relayed call event carries a relayed tag and is received only by
\* connections of members of its chat other than its sender, who is a member
C19_RelayState ==
    \A x \in DOMAIN sent : \A k \in DOMAIN sent[x] :
      LET e == sent[x][k]
      IN  /\ e.type \notin {"call_offer", "call_accept"}
          /\ IsRelayed(e) =>
               /\ wuser[x] # e.username
               /\ is_member(e.chat_id, wuser[x])
               /\ is_member(e.chat_id, e.username)

\* C19: a call-signaling frame of a chat member with a recipient online is
\* relayed to every registered connection of every other member of the chat,
\* to no connection of the sender and to no connection of a non-member, as
\* incoming_call for call_offer, call_answer for call_accept and under its
\* own tag otherwise; a frame of a non-member relays nothing.
C19_Relay == [](C19_RelayState) /\ [][C19_RelayStep]_vars

\* bob offered a call in chat g: alice's two connections have received
\* incoming_call, bob's own none
C19_Witness ==
    /\ wpc["c3"] = "recv"
    /\ sent["c1"] = <<CallEvent("incoming_call", "g", "bob", "")>>
    /\ sent["c2"] = <<CallEvent("incoming_call", "g", "bob", "")>>
    /\ sent["c3"] = <<>>

\* alice accepted: bob's connection has received call_answer
C19_AnswerWitness ==
    sent["c3"] = <<CallEvent("call_answer", "g", "alice", "")>>

\* the rows of chat_members
Member(ch, u) == ch \in DOMAIN chat_members /\ u \in chat_members[ch]

\* the handler of c answers a typing frame for chat ch by starting a loop of
\* sends
TypingStartsSends(c, ch) ==
    \E members \in list_members(ch) : FrameTyping(c, ch, members) /\ wpc'[c] = "bcast"

\* a typing frame of a member starts the sends of a typing event to the
\* registered connections of the members of the chat, and each send delivers
\* it
C20_TypingStep ==
    \A c \in DOMAIN wpc :
      /\ (wpc[c] = "recv" /\ task'[c] # task[c]) =>
         \A ch \in DOMAIN chat_members : \A members \in list_members(ch) :
           (task'[c].ev.chat_id = ch /\ FrameTyping(c, ch, members)) =>
              /\ Member(ch, wuser[c])
              /\ task'[c].ev = Event("typing", ch, wuser[c], 0)
              /\ Pending(c, task'[c]) = {x \in RegisteredConns : Member(ch, wuser[x])}
              /\ sent' = sent
      /\ (wpc[c] = "bcast" /\ task[c].ev.type = "typing") => SendDelivers(c)

\* the handler of an open connection starts the sends for a typing frame
\* exactly when its user is a member of the chat; a typing event received is
\* of a member of its chat and on a connection of a member of its chat
C20_TypingState ==
    /\ \A c \in DOMAIN wpc : \A ch \in DOMAIN chat_members :
         (wpc[c] = "recv" /\ alive[c]) =>
            (Member(ch, wuser[c]) <=> ENABLED TypingStartsSends(c, ch))
    /\ \A x \in DOMAIN sent : \A k \in DOMAIN sent[x] :
         sent[x][k].type = "typing" =>
            /\ Member(sent[x][k].chat_id, sent[x][k].username)
            /\ Member(sent[x][k].chat_id, wuser[x])

\* C20: a typing frame results in a typing event broadcast to the members of
\* chat_id if and only if the user of the sending connection is a member of
\* chat_id when the frame is handled; a typing frame of a non-member
\* produces no event on any connection.
C20_Typing == [](C20_TypingState) /\ [][C20_TypingStep]_vars

\* alice and bob are the members of chat g, and bob's connection has
\* received the typing event of alice
C20_Witness ==
    /\ chat_members["g"] = {"alice", "bob"}
    /\ wpc["c1"] = "recv"
    /\ sent["c3"] = <<Event("typing", "g", "alice", 0)>>
    /\ sent["c1"] = <<Event("typing", "g", "alice", 0)>>

\* alice, not a member of chat d, is connected next to bob, a member, whose
\* connection has received nothing
C20_NonMemberWitness ==
    /\ chat_members["d"] = {"bob"}
    /\ chat_members["g"] = {}
    /\ wpc["c1"] = "recv" /\ alive["c1"]
    /\ wpc["c3"] = "recv" /\ alive["c3"]
    /\ sent["c3"] = <<>>

(***************************************************************************)
(* The flags of a refresh-token row                                        *)
(***************************************************************************)
\* the row of token t keeps what it has: it stays in the table, a revoked or
\* compromised flag that is set stays set, a replaced_by that is set stays
\* the same token
KeepsFlags(t) ==
    /\ t \in DOMAIN refresh_tokens'
    /\ refresh_tokens[t].revoked => refresh_tokens'[t].revoked
    /\ refresh_tokens[t].compromised => refresh_tokens'[t].compromised
    /\ refresh_tokens[t].replaced_by # NULL =>
          refresh_tokens'[t].replaced_by = refresh_tokens[t].replaced_by

C30_CompromisedRevoked ==
    \A t \in DOMAIN refresh_tokens :
       refresh_tokens[t].compromised => refresh_tokens[t].revoked

C30_MonotoneStep == \A t \in DOMAIN refresh_tokens : KeepsFlags(t)

\* C30: in every refresh-token row, revoked and compromised never go back
\* to false, compromised implies revoked, and a replaced_by that is not null
\* is never changed or cleared
C30_FlagsMonotone == []C30_CompromisedRevoked /\ [][C30_MonotoneStep]_vars

(***************************************************************************)
(* broadcast_users to a user without connections                           *)
(***************************************************************************)
\* request r calls broadcast_users in this step
Calls(r) == hpc[r] = "idle" /\ hpc'[r] # "idle"

C27_NoopStep ==
    \A r \in Reqs, U \in Usernames :
       (/\ Calls(r)
        /\ hcall'[r].usernames = <<U>>
        /\ SocketsOf(USER_SOCKETS, U) = {})
       => /\ hpc'[r] = "done"
          /\ hlog'[r] = <<>>
          /\ sent' = sent
          /\ USER_SOCKETS' = USER_SOCKETS
          /\ U \notin DOMAIN USER_SOCKETS'

\* C27: broadcast_users([U], e) for a user U without connections returns
\* without an error, sends on no connection and leaves the registry as it
\* was, with no entry for U
C27_OfflineNoop == [][C27_NoopStep]_vars

\* broadcast_users([bob], e) has returned without a send while connections
\* of alice are registered and bob has no entry
C27_Witness ==
    /\ hpc["r1"] = "done"
    /\ hcall["r1"].usernames = <<"bob">>
    /\ hcall["r1"].ev.type = "invited"
    /\ hcall["r1"].reg = {"c1", "c2"}
    /\ hlog["r1"] = <<>>
    /\ "bob" \notin DOMAIN USER_SOCKETS
    /\ "alice" \in DOMAIN USER_SOCKETS

(***************************************************************************)
(* The heartbeat                                                           *)
(***************************************************************************)
Ping == Event("ping", "", "", 0)

\* the heartbeat of connection c wakes from its sleep in this step: it ends,
\* or goes to sleep again, while ws_user stays where it is
HeartbeatTick(c) ==
    /\ hbst[c] = "sleep"
    /\ wpc'[c] = wpc[c]
    /\ hbst'[c] = "done" \/ hbdue'[c] # hbdue[c]

\* ws_user of connection c enters its receive loop in this step
BecomesActive(c) == wpc[c] \in {"accepted", "replay"} /\ wpc'[c] = "recv"

\* the time since the last pong of c, or since c became active
SincePong(c) == mono - last_pong_at[c]

C22_TickStep ==
    \A c \in Conns :
       /\ HeartbeatTick(c) =>
            /\ mono >= hbdue[c]
            /\ IF SincePong(c) > WS_HEARTBEAT_TIMEOUT_SECONDS
               THEN /\ ~alive'[c]
                    /\ alive[c] => wcode'[c] = 1011
                    /\ hbst'[c] = "done"
                    /\ sent' = sent
               ELSE /\ sent' = [sent EXCEPT ![c] =
                                  IF alive[c] THEN Append(sent[c], Ping) ELSE sent[c]]
                    /\ alive' = alive /\ wcode' = wcode
                    /\ hbst'[c] = "sleep"
                    /\ hbdue'[c] = mono + WS_HEARTBEAT_INTERVAL_SECONDS
       /\ last_pong_at'[c] # last_pong_at[c] =>
            /\ last_pong_at'[c] = mono
            /\ \/ BecomesActive(c)
               \/ wpc[c] = "recv" /\ wpc'[c] = "recv" /\ alive[c] /\ sent' = sent
       /\ BecomesActive(c) =>
            /\ last_pong_at'[c] = mono
            /\ hbst'[c] = "sleep"
            /\ hbdue'[c] = mono + WS_HEARTBEAT_INTERVAL_SECONDS
       /\ wcode'[c] = 1011 /\ wcode[c] # 1011 => HeartbeatTick(c)
       /\ Len(sent'[c]) > Len(sent[c]) /\ sent'[c][Len(sent'[c])] = Ping =>
            HeartbeatTick(c)

\* a sleeping heartbeat belongs to a connection inside its receive loop
C22_TickState ==
    \A c \in Conns : hbst[c] = "sleep" => InLoop(wpc[c])

\* C22: the heartbeat of a connection in its receive loop wakes no earlier
\* than WS_HEARTBEAT_INTERVAL_SECONDS after the loop was entered or after its
\* last ping; when it wakes more than WS_HEARTBEAT_TIMEOUT_SECONDS after the
\* last pong (after the loop was entered, without one) it closes the
\* connection with 1011 and sends no ping, otherwise it sends one ping and
\* sleeps again; the timestamp is written only on entering the loop and by
\* a pong frame, and nothing else closes with 1011 or sends a ping
C22_Heartbeat == []C22_TickState /\ [][C22_TickStep]_vars

\* the heartbeat of c1 has closed its connection, which received no ping,
\* and has sent a ping to c2, whose client answered the tick before with a pong
C22_Witness ==
    /\ wcode["c1"] = 1011 /\ sent["c1"] = <<>> /\ hbst["c1"] = "done" /\ wpc["c1"] = "recv"
    /\ sent["c2"] = <<Ping>> /\ alive["c2"] /\ last_pong_at["c2"] = mono
    /\ hbdue["c2"] = mono + WS_HEARTBEAT_INTERVAL_SECONDS
    /\ mono > 0

(***************************************************************************)
(* The rate limiter's window                                               *)
(***************************************************************************)
\* the calls on bucket b, as positions of the log
CallsOn(b) == {i \in DOMAIN rl_log : rl_log[i].bucket = b}

\* the first call on the bucket of call i
FirstOn(i) == CHOOSE k \in CallsOn(rl_log[i].bucket) :
                 \A j \in CallsOn(rl_log[i].bucket) : k <= j

\* the calls on the bucket of call i that came before it
EarlierOn(i) == {j \in CallsOn(rl_log[i].bucket) : j < i}

\* call i comes in the window the first call on its bucket opened
InFirstWindow(i) == rl_log[i].at - rl_log[FirstOn(i)].at < RATE_LIMIT_WINDOW_SECONDS

\* call i is the first on its bucket after that window
FirstAfterWindow(i) ==
    /\ ~InFirstWindow(i)
    /\ \A j \in EarlierOn(i) : InFirstWindow(j)

\* the first N calls in the window succeed and the next ones in it fail
C23_WithinWindow ==
    \A i \in DOMAIN rl_log :
       InFirstWindow(i) =>
          (rl_log[i].ok <=> Cardinality(EarlierOn(i)) < rl_log[i].limit)

\* C23: on one bucket with limit N and window W, the first N calls within W
\* seconds of the first call succeed, further calls within these W seconds
\* fail, and the first call made W seconds or more after the first call
\* succeeds
C23_RateWindow ==
    /\ C23_WithinWindow
    /\ \A i \in DOMAIN rl_log : FirstAfterWindow(i) => rl_log[i].ok

\* the same with the last part for a call made more than W seconds after
\* the first call
C23_RateWindowLater ==
    /\ C23_WithinWindow
    /\ \A i \in DOMAIN rl_log :
          (/\ rl_log[i].at - rl_log[FirstOn(i)].at > RATE_LIMIT_WINDOW_SECONDS
           /\ \A j \in EarlierOn(i) :
                 rl_log[j].at - rl_log[FirstOn(i)].at <= RATE_LIMIT_WINDOW_SECONDS)
          => rl_log[i].ok

\* a refused call announced a retry after r seconds, and the next call on
\* the bucket, made r seconds later, is refused as well
C23_RetryRefused ==
    \E i, j \in DOMAIN rl_log :
       /\ i < j /\ rl_log[j].bucket = rl_log[i].bucket
       /\ ~rl_log[i].ok /\ ~rl_log[j].ok
       /\ rl_log[j].at = rl_log[i].at + rl_log[i].retry_after_seconds
       /\ rl_log[j].at = rl_log[FirstOn(i)].at + RATE_LIMIT_WINDOW_SECONDS

(***************************************************************************)
(* The delivered frame                                                     *)
(***************************************************************************)
\* the rows of the store for message mid and user u
DeliveredRows(store, mid, u) ==
    {row \in store : row.message_id = mid /\ row.username = u}

\* the handler of c answers a delivered frame for message mid of chat ch by
\* starting a loop of sends
DeliveredStartsSends(c, ch, mid) ==
    \E members \in list_members(ch) :
       FrameDelivered(c, ch, mid, members) /\ wpc'[c] = "bcast"

\* a frame that starts a loop of sends is a delivered frame of a member: its
\* row is in the store afterwards, written with the time of the frame if
\* there was none and left as it was otherwise, no other row changes, and
\* the loop is to send the delivered event to the registered connections of
\* the members of the chat; nothing else writes the store; each send
\* delivers the event
C21_DeliveredStep ==
    /\ \A c \in DOMAIN wpc :
         /\ (wpc[c] = "recv" /\ task'[c] # task[c]) =>
              LET e == task'[c].ev
                  u == wuser[c]
              IN  /\ e = Event("delivered", e.chat_id, u, e.id)
                  /\ e.id # 0
                  /\ Member(e.chat_id, u)
                  /\ message_delivered' =
                        IF DeliveredRows(message_delivered, e.id, u) # {}
                        THEN message_delivered
                        ELSE message_delivered \cup
                               {[message_id |-> e.id, username |-> u,
                                 delivered_at |-> now]}
                  /\ Pending(c, task'[c]) =
                        {x \in RegisteredConns : Member(e.chat_id, wuser[x])}
                  /\ sent' = sent
         /\ (wpc[c] = "bcast" /\ task[c].ev.type = "delivered") => SendDelivers(c)
    /\ message_delivered' # message_delivered =>
          \E c \in DOMAIN wpc : wpc[c] = "recv" /\ task'[c] # task[c]

\* the store holds one row at most for a message and a user; the handler of
\* an open connection starts the sends for a delivered frame exactly when its
\* user is a member of the chat; a delivered event received is of a member
\* of its chat, on a connection of a member, and its row is in the store
C21_DeliveredState ==
    /\ \A r1, r2 \in message_delivered :
         (r1.message_id = r2.message_id /\ r1.username = r2.username) => r1 = r2
    /\ \A c \in DOMAIN wpc : \A ch \in DOMAIN chat_members :
         (wpc[c] = "recv" /\ alive[c]) =>
            (Member(ch, wuser[c]) <=> ENABLED DeliveredStartsSends(c, ch, 1))
    /\ \A x \in DOMAIN sent : \A k \in DOMAIN sent[x] :
         sent[x][k].type = "delivered" =>
            /\ Member(sent[x][k].chat_id, sent[x][k].username)
            /\ Member(sent[x][k].chat_id, wuser[x])
            /\ DeliveredRows(message_delivered, sent[x][k].id, sent[x][k].username) # {}

\* C21: a delivered frame of a member of chat_id leaves one row for
\* (message_id, username) in the store, which repeated frames neither
\* duplicate nor change, and broadcasts a delivered event to the chat; a
\* delivered frame of a non-member writes nothing and broadcasts nothing
C21_Delivered == [](C21_DeliveredState) /\ [][C21_DeliveredStep]_vars

\* alice and bob are the members of chat g; alice's delivered frame for
\* message 1 was recorded at time 0, and at time 1 her repeated frame has been
\* rebroadcast to bob's connection with the row as it was
C21_Witness ==
    /\ chat_members["g"] = {"alice", "bob"}
    /\ now = 1
    /\ message_delivered = {[message_id |-> 1, username |-> "alice", delivered_at |-> 0]}
    /\ wpc["c1"] = "recv" /\ last_pong_at["c1"] = 0
    /\ sent["c3"] = <<Event("delivered", "g", "alice", 1)>>
    /\ sent["c1"] = <<Event("delivered", "g", "alice", 1)>>

\* alice, not a member of chat d, is connected next to bob, a member, whose
\* connection has received nothing, and the store is empty
C21_NonMemberWitness ==
    /\ chat_members["d"] = {"bob"}
    /\ wpc["c1"] = "recv" /\ alive["c1"]
    /\ wpc["c3"] = "recv" /\ alive["c3"]
    /\ sent["c3"] = <<>>
    /\ message_delivered = {}

(***************************************************************************)
(* The page size                                                           *)
(***************************************************************************)
\* C29: normalize_messages_limit returns 50 for None, 1 for a limit below 1,
\* 200 for a limit above 200, and the limit itself from 1 to 200
C29_LimitClamped ==
    limit_raw.kind # "unset" =>
       page_limit = IF limit_raw.kind = "none" THEN 50
                    ELSE IF limit_raw.val < 1 THEN 1
                    ELSE IF limit_raw.val > 200 THEN 200
                    ELSE limit_raw.val

\* the call with limit 0 has returned 1
C29_Witness == limit_raw = [kind |-> "int", val |-> 0] /\ page_limit = 1

\* the calls with None, with 201 and with 200 return 50, 200 and 200
C29_NoneWitness == limit_raw.kind = "none" /\ page_limit = 50
C29_AboveWitness == limit_raw = [kind |-> "int", val |-> 201] /\ page_limit = 200
C29_InsideWitness == limit_raw = [kind |-> "int", val |-> 137] /\ page_limit = 137

(***************************************************************************)
(* The required environment                                                *)
(***************************************************************************)
\* the variables other than JWT_SECRET are set as the program needs them
OthersSet == environ = [BaseEnv EXCEPT !.JWT_SECRET = environ.JWT_SECRET]

\* C28: the program started without JWT_SECRET in its environment, the other
\* required variables being set, ends with the RuntimeError JWT_SECRET env is
\* required and serves no request
C28_MissingSecretFails ==
    (~environ.JWT_SECRET.set /\ OthersSet) =>
       boot = "RuntimeError JWT_SECRET env is required"

\* the program serves with a secret it drew itself
C28_EphemeralSecret ==
    /\ ~environ.JWT_SECRET.set /\ OthersSet
    /\ boot = "serving"
    /\ users # {}

\* without JWT_SECRET the import fails only for another variable
C28_OtherFailures ==
    ~environ.JWT_SECRET.set =>
       boot \in {"serving", "RuntimeError DATABASE_URL env is required",
                 "RuntimeError Cloudinary env vars required"}

(***************************************************************************)
(* Membership and authorship                                               *)
(***************************************************************************)
NoLimit == [kind |-> "none", val |-> 0]

\* a request of u on chat ch that gets past require_member is possible
PassesGuard(u, ch) ==
    \/ \E r \in Reqs : \E members \in list_members(ch) :
          ENABLED CreateTextMessage(r, u, ch, members)
    \/ ENABLED ListMessages(u, ch, NoLimit)

C25_GuardState ==
    \A u \in Usernames, ch \in PushChats :
       /\ require_member(ch, u) \in {"ok", "403 Not a member"}
       /\ (require_member(ch, u) = "403 Not a member") <=> ~is_member(ch, u)
       /\ ~is_member(ch, u) =>
             /\ CreateMessageOutcome(u, ch, SomeText, FALSE) = "403 Not a member"
             /\ ListMessagesOutcome(u, ch) = "403 Not a member"
             /\ ~PassesGuard(u, ch)
       /\ is_member(ch, u) =>
             /\ CreateMessageOutcome(u, ch, SomeText, FALSE) = "200 ok"
             /\ ListMessagesOutcome(u, ch) = "200 ok"

\* what a step adds: message rows, delivered rows, broadcasts of a message
C25_GuardStep ==
    /\ \A m \in DOMAIN messages' \ DOMAIN messages :
          is_member(messages'[m], message_cols'[m].sender)
    /\ \A row \in message_delivered' \ message_delivered :
          /\ row.message_id \in DOMAIN messages'
          /\ is_member(messages'[row.message_id], row.username)
    /\ \A r \in Reqs :
          (hcall'[r] # hcall[r] /\ hcall'[r].ev.type = "message") =>
             is_member(hcall'[r].ev.chat_id, hcall'[r].ev.username)

\* C25: a create-message request of a user who is not a member of the chat
\* is answered 403 'Not a member' and writes no message row, no delivered row
\* and starts no broadcast; require_member raises 403 exactly when is_member
\* is false; list_messages is answered 403 for the same users
C25_NotAMember == []C25_GuardState /\ [][C25_GuardStep]_vars

\* bob has sent message 3 to chat d, of which alice is not a member, and a
\* request of alice for chat d would still be answered 403
C25_Witness ==
    /\ Len(messages) = 3 /\ messages[3] = "d" /\ message_cols[3].sender = "bob"
    /\ ~is_member("d", "alice")
    /\ hpc["r2"] = "idle"
    /\ CreateMessageOutcome("alice", "d", SomeText, FALSE) = "403 Not a member"
    /\ ListMessagesOutcome("alice", "d") = "403 Not a member"

\* the members of the chat of message m who did not send it
NonSenders(m) ==
    {u \in Usernames : is_member(messages[m], u) /\ message_cols[m].sender # u}

\* a request of u that edits message m or deletes it for all is possible
CanChange(u, m) ==
    \E r \in Reqs : \E members \in list_members(messages[m]) :
       \/ \E text \in EditTexts : ENABLED EditMessage(r, u, m, text, members)
       \/ ENABLED DeleteForAll(r, u, m, members)

C26_SenderState ==
    \A m \in DOMAIN messages : \A u \in NonSenders(m) :
       /\ \A text \in EditTexts : EditOutcome(u, m, text) = "403 Only sender can edit"
       /\ DeleteOutcome(u, m, "all") = "403 Only sender can delete for all"
       /\ ~CanChange(u, m)

\* the rows of the messages change, and the two events are broadcast, only by
\* a request of the sender
C26_SenderStep ==
    /\ \A r \in Reqs, u \in Usernames, m \in DOMAIN messages :
          \A members \in list_members(messages[m]) :
             /\ \A text \in EditTexts :
                   EditMessage(r, u, m, text, members) => message_cols[m].sender = u
             /\ DeleteForAll(r, u, m, members) => message_cols[m].sender = u
    /\ \A m \in DOMAIN messages :
          message_cols'[m] # message_cols[m] =>
             \E r \in Reqs :
                /\ hcall'[r] # hcall[r]
                /\ hcall'[r].ev.type \in {"message_edited", "message_deleted_all"}
                /\ hcall'[r].ev.id = m
    /\ \A r \in Reqs :
          (hcall'[r] # hcall[r]
             /\ hcall'[r].ev.type \in {"message_edited", "message_deleted_all"}) =>
                message_cols'[hcall'[r].ev.id] # message_cols[hcall'[r].ev.id]
                   \/ message_cols[hcall'[r].ev.id].is_edited
                   \/ message_cols[hcall'[r].ev.id].deleted_for_all

\* C26: a member of the chat who is not the sender of a message is answered
\* 403 when editing it or deleting it for all; the row of the message stays
\* as it was and no message_edited or message_deleted_all event is broadcast
C26_OnlySender == []C26_SenderState /\ [][C26_SenderStep]_vars

\* alice has edited her message 1 of chat g; bob, a member of g, would be
\* answered 403 for editing it and for deleting it for all
C26_Witness ==
    /\ message_cols[1].sender = "alice" /\ message_cols[1].is_edited
    /\ "bob" \in NonSenders(1)
    /\ hpc["r2"] = "idle"
    /\ EditOutcome("bob", 1, "b") = "403 Only sender can edit"
    /\ DeleteOutcome("bob", 1, "all") = "403 Only sender can delete for all"

\* bob has hidden alice's message 1 for himself, which a non-sender may do
C26_ScopeMeWitness ==
    /\ <<1, "bob">> \in message_hidden
    /\ message_cols[1] = NewRow("alice", SomeText)

(***************************************************************************)
(* Commit before broadcast                                                 *)
(***************************************************************************)
\* the store holds what the event e tells
Committed(e) ==
    CASE e.type = "message" ->
            /\ e.id \in DOMAIN messages
            /\ messages[e.id] = e.chat_id
            /\ message_cols[e.id].sender = e.username
      [] e.type = "message_edited" ->
            /\ e.id \in DOMAIN messages
            /\ messages[e.id] = e.chat_id
            /\ message_cols[e.id].is_edited
            /\ message_cols[e.id].edited_at >= e.edited_at
            /\ message_cols[e.id].edited_at = e.edited_at => message_cols[e.id].text = e.text
      [] e.type = "message_deleted_all" ->
            /\ e.id \in DOMAIN messages
            /\ messages[e.id] = e.chat_id
            /\ message_cols[e.id].deleted_for_all
            /\ message_cols[e.id].deleted_at >= e.deleted_at
      [] e.type = "delivered" ->
            \E row \in message_delivered :
               row.message_id = e.id /\ row.username = e.username
      [] OTHER -> FALSE

C24_CommittedState ==
    /\ \A c \in DOMAIN sent : \A i \in DOMAIN sent[c] : Committed(sent[c][i])
    /\ \A r \in Reqs : hcall[r] # NoCall => Committed(hcall[r].ev)
    /\ \A c \in DOMAIN task : task[c] # NoTask => Committed(task[c].ev)

\* an event that a step pushes was committed when the step began, and a step
\* that starts a broadcast has written what its event tells
C24_CommittedStep ==
    /\ \A c \in DOMAIN sent :
          Len(sent'[c]) > Len(sent[c]) => Committed(sent'[c][Len(sent'[c])])
    /\ \A r \in Reqs : hcall'[r] # hcall[r] => sent' = sent
    /\ \A c \in DOMAIN task :
          (task'[c] # task[c] /\ task[c] = NoTask) => sent' = sent

C24_SendWitness ==
    /\ \E i \in DOMAIN sent["c1"] : sent["c1"][i].type = "message" /\ sent["c1"][i].id = 3
    /\ \E i \in DOMAIN sent["c3"] : sent["c3"][i].type = "message" /\ sent["c3"][i].id = 3

\* a connection has received message_deleted_all, another one delivered
C24_DeleteWitness ==
    /\ \E c \in DOMAIN sent : \E i \in DOMAIN sent[c] :
          sent[c][i].type = "message_deleted_all"
    /\ \E c \in DOMAIN sent : \E i \in DOMAIN sent[c] : sent[c][i].type = "delivered"

(***************************************************************************)
(* The retry-after hint                                                    *)
(***************************************************************************)
\* call j is the next call on the bucket of the refused call i, with the
\* same limit, made as many seconds later as call i announced
RetryOf(i, j) ==
    /\ i < j
    /\ rl_log[j].bucket = rl_log[i].bucket
    /\ rl_log[j].limit = rl_log[i].limit
    /\ ~rl_log[i].ok
    /\ \A k \in CallsOn(rl_log[i].bucket) : ~(i < k /\ k < j)
    /\ rl_log[j].at = rl_log[i].at + rl_log[i].retry_after_seconds

\* the hint of a refused call lies between 1 and the window
C35_RetryBounds ==
    \A i \in DOMAIN rl_log :
       ~rl_log[i].ok =>
          /\ rl_log[i].retry_after_seconds >= 1
          /\ rl_log[i].retry_after_seconds <= RATE_LIMIT_WINDOW_SECONDS

\* C35: when a call is refused with retry-after R, the next call on the same
\* bucket with the same limit, made R seconds later, succeeds; R is at least
\* 1 and at most the window
C35_RetryAfter ==
    /\ C35_RetryBounds
    /\ \A i, j \in DOMAIN rl_log : RetryOf(i, j) => rl_log[j].ok

\* a retry made R seconds after a refusal was itself refused
C35_RetryRefusedAgain ==
    \E i, j \in DOMAIN rl_log : RetryOf(i, j) /\ ~rl_log[j].ok

(***************************************************************************)
(* The chat of a delivered message                                         *)
(***************************************************************************)
\* user u is a member of the chat that holds message mid
MemberOfChatOf(mid, u) == mid \in DOMAIN messages /\ is_member(messages[mid], u)

\* C37: a delivered frame creates the row (message_id, username) only if the
\* user is a member of the chat that holds the message, and the delivered
\* event it rebroadcasts reaches only members of that chat
C37_DeliveredInChat ==
    /\ \A row \in message_delivered : MemberOfChatOf(row.message_id, row.username)
    /\ \A c \in DOMAIN sent : \A k \in DOMAIN sent[c] :
          sent[c][k].type = "delivered" =>
             /\ MemberOfChatOf(sent[c][k].id, sent[c][k].username)
             /\ MemberOfChatOf(sent[c][k].id, wuser[c])

\* alice, who is not a member of chat d, has a delivered row for message 2
\* of chat d, and her connection was told so in the name of chat g
C37_ForeignChat ==
    /\ messages[2] = "d" /\ ~is_member("d", "alice")
    /\ \E row \in message_delivered : row.message_id = 2 /\ row.username = "alice"
    /\ Event("delivered", "g", "alice", 2) \in Range(sent["c1"])

\* there is a delivered row for message 3, which no chat holds
C37_NoSuchMessage ==
    /\ 3 \notin DOMAIN messages
    /\ \E row \in message_delivered : row.message_id = 3

\* the rows and events of frames that name the chat of the message are of
\* members of that chat
C37_HonestFrames ==
    \A c \in DOMAIN sent : \A k \in DOMAIN sent[c] :
       (/\ sent[c][k].type = "delivered"
        /\ sent[c][k].id \in DOMAIN messages
        /\ messages[sent[c][k].id] = sent[c][k].chat_id) =>
          /\ MemberOfChatOf(sent[c][k].id, sent[c][k].username)
          /\ MemberOfChatOf(sent[c][k].id, wuser[c])

(***************************************************************************)
(* The registry and the handlers that have ended                           *)
(***************************************************************************)
\* where a ws_user handler is once it has returned or raised
Ended == {"rejected", "closed", "failed", "aborted", "crashed"}

\* the connections of the registry
Registry == UNION {USER_SOCKETS[u] : u \in DOMAIN USER_SOCKETS}

\* C34: every connection of the registry belongs to a handler that is still
\* running; once a handler has ended, also by an error of the replay between
\* _ws_add and the receive loop, its connection is not in the registry
C34_RegistryRunning ==
    \A c \in DOMAIN wpc : wpc[c] \in Ended => c \notin Registry

\* the handler of c1 ended by an error of the replay query and c1 is still
\* in the registry of alice
C34_CrashedRegistered ==
    /\ wpc["c1"] = "crashed"
    /\ "alice" \in DOMAIN USER_SOCKETS /\ "c1" \in USER_SOCKETS["alice"]

\* the handlers that ended in any other way left the registry
C34_OtherEndings ==
    \A c \in DOMAIN wpc : wpc[c] \in Ended \ {"crashed"} => c \notin Registry

(***************************************************************************)
(* The bound of the replay                                                 *)
(***************************************************************************)
\* rows are the lowest n ids of the set S, ascending, n the smaller of limit
\* and the size of S
LowestOf(rows, S, limit) ==
    /\ Len(rows) = Min(Cardinality(S), limit)
    /\ \A i, j \in DOMAIN rows : i < j => rows[i] < rows[j]
    /\ Range(rows) \subseteq S
    /\ \A m \in S \ Range(rows) : \A k \in Range(rows) : k < m

C33_QueryState ==
    since_call # NoQuery =>
       IF since_call.since_message_id > 0
       THEN LowestOf(since_call.rows,
                     VisibleAbove(since_call.username, since_call.since_message_id),
                     since_call.limit)
       ELSE since_call.rows = <<>>

\* the replay of a connection is the query with the default limit of 1000
C33_ReplayStep ==
    \A since \in SinceParams :
       Registered("c1", since, TRUE) =>
          /\ ReplayLimit = 1000
          /\ replayq'["c1"] = get_user_messages_since(wuser["c1"], ParseSince(since), 1000)
          /\ Len(replayq'["c1"]) <= 1000

C33_ReplayWitness ==
    /\ wpc["c1"] = "replay" /\ replay_since["c1"] = 1
    /\ replayq["c1"] = <<2, 3, 4>>

(***************************************************************************)
(* The heartbeat task and the receive loop end together                    *)
(***************************************************************************)
\* the receive loop of c has exited
LoopExited(c) == wpc[c] \in {"closed", "failed"}

\* the heartbeat task of c ended by its timeout, not by the finally block
TimedOut(c) == hbst[c] = "done" /\ wpc[c] \in {"recv", "bcast"}

\* once the receive loop has exited the heartbeat task has ended and sends
\* no ping
C31_NoPingAfterExit ==
    \A c \in DOMAIN wpc :
       LoopExited(c) => hbst[c] = "done" /\ ~ENABLED Heartbeat(c)

\* when the heartbeat task has closed the connection the transport is closed
C31_TimeoutCloses ==
    \A c \in DOMAIN wpc : TimedOut(c) => ~alive[c]

\* C31: once the receive loop of a connection has exited no further ping is
\* sent on it, and once its heartbeat task has closed it on timeout the
\* receive loop eventually exits and the connection leaves the registry
C31_EndTogether ==
    /\ [](C31_NoPingAfterExit /\ C31_TimeoutCloses)
    /\ \A c \in Conns : TimedOut(c) ~> (LoopExited(c) /\ c \notin Registry)

\* the heartbeat task of c1 has closed the open connection with 1011 and the
\* receive loop has not yet noticed
C31_Witness ==
    /\ TimedOut("c1") /\ wcode["c1"] = 1011
    /\ "c1" \in Registry

\* after that the receive loop has exited and c1 has left the registry
C31_ExitWitness ==
    /\ wpc["c1"] = "closed" /\ wcode["c1"] = 1011 /\ hbst["c1"] = "done"
    /\ "c1" \notin Registry

(***************************************************************************)
(* The registry changing under a broadcast                                 *)
(***************************************************************************)
\* the broadcast of r is in its loop, has returned, or has not begun: it has
\* not raised; when it has returned, every connection of a named user that
\* was registered from the call to the return has been sent to
C32_SnapshotState ==
    \A r \in Reqs :
       /\ hpc[r] \in {"idle", "bcast", "done"}
       /\ hpc[r] = "done" =>
             \A c \in hcall[r].reg \cap RegisteredConns :
                wuser[c] \in Range(hcall[r].usernames) => c \in Targeted(r)

\* a connection handler that adds or removes a connection leaves the loop of
\* every broadcast as it is; a send of the loop goes to a connection of the
\* snapshot and takes it out of the snapshot, and the next snapshot is the
\* set of connections a user has when the loop reaches that user
C32_SnapshotStep ==
    \A r \in Reqs :
       /\ USER_SOCKETS' # USER_SOCKETS =>
             htask'[r] = htask[r] /\ hpc'[r] = hpc[r] /\ hlog'[r] = hlog[r]
       /\ (hpc[r] = "bcast" /\ hlog'[r] # hlog[r]) =>
             \E target \in htask[r].snap :
                /\ hlog'[r] = Append(hlog[r], [ws |-> target, ok |-> alive[target]])
                /\ IF htask[r].snap # {target}
                   THEN htask'[r] = [htask[r] EXCEPT !.snap = htask[r].snap \ {target}]
                   ELSE \/ htask'[r] = NoTask /\ hpc'[r] = "done"
                        \/ \E u \in htask'[r].sent_to \ htask[r].sent_to :
                              /\ htask'[r].snap = SocketsOf(USER_SOCKETS, u)
                              /\ htask'[r].snap # {}

\* C32: connections added and removed during a broadcast never make it fail
\* and never make it skip a connection registered for the whole broadcast;
\* the broadcast sends to the connections a user had when it reached that
\* user: one removed afterwards can still get a send, which fails and is
\* swallowed, and one added afterwards gets none
C32_Snapshot == []C32_SnapshotState /\ [][C32_SnapshotStep]_vars

\* the broadcast to alice has returned: it sent to c1, which had been removed
\* from the registry by then and whose send failed, and not to c2, which
\* alice registered after the broadcast had taken her connections
C32_Witness ==
    /\ hpc["r1"] = "done"
    /\ hcall["r1"].usernames = <<"alice">>
    /\ hcall["r1"].reg = {"c1"}
    /\ hlog["r1"] = <<[ws |-> "c1", ok |-> FALSE]>>
    /\ "c1" \notin RegisteredConns
    /\ "c2" \in RegisteredConns

\* ---- C38 ----
\* message_id is deleted for all in the store
DeletedForAll(message_id) ==
    /\ message_id \in DOMAIN message_cols
    /\ message_cols[message_id].deleted_for_all

\* connection c was sent message_deleted_all for message_id and, later,
\* message_edited for it
EditedAfterDeleted(c, message_id) ==
    \E i, j \in DOMAIN sent[c] :
       /\ i < j
       /\ sent[c][i].type = "message_deleted_all" /\ sent[c][i].id = message_id
       /\ sent[c][j].type = "message_edited" /\ sent[c][j].id = message_id

\* C38 (the store): a message that is deleted for all stays deleted for all
\* and keeps its text, and every edit request for it is refused, the
\* sender's with 400 'Message deleted'
C38_DeletedState ==
    \A m \in MessageIds : DeletedForAll(m) =>
       \A u \in Usernames, text \in EditTexts :
          /\ EditOutcome(u, m, text) # "200 ok"
          /\ u = message_cols[m].sender => EditOutcome(u, m, text) = "400 Message deleted"

C38_DeletedStep ==
    \A m \in MessageIds : DeletedForAll(m) =>
       /\ message_cols'[m].deleted_for_all
       /\ message_cols'[m].text = message_cols[m].text

C38_DeletedStays == []C38_DeletedState /\ [][C38_DeletedStep]_vars

\* C38: once a message is deleted for all it stays deleted, no edit changes
\* it, and no connection is sent message_edited for it after it was sent
\* message_deleted_all for it
C38_NoEditAfterDelete ==
    \A c \in HttpConns, m \in MessageIds : ~EditedAfterDeleted(c, m)

\* a deleted message whose sender's edit was accepted before the deletion
C38_DeletedWitness ==
    \E m \in MessageIds : DeletedForAll(m) /\ message_cols[m].is_edited

(***************************************************************************)
(* Claims about the deletion of a chat                                     *)
(***************************************************************************)
\* request r, of delete_chat, deletes the group ch in this step
DeletesGroup(r, ch) ==
    /\ Calls(r)
    /\ ch \in DOMAIN chats /\ chats[ch].type = "group"
    /\ ch \notin DOMAIN chats'

\* request r, of delete_chat, takes its caller out of the dm ch in this step
LeavesDm(r, ch) ==
    /\ Calls(r)
    /\ ch \in DOMAIN chats /\ chats[ch].type = "dm"
    /\ chat_members'[ch] # chat_members[ch]

ChatDeleted(ch) == Event("chat_deleted", ch, "", 0)

\* the deletion of a group starts a broadcast that names every user who was
\* a member, and stands at a send when one of them has a connection
C36_GroupStep ==
    \A r \in Reqs, ch \in AdminChats :
       DeletesGroup(r, ch) =>
          /\ hcall'[r].ev = ChatDeleted(ch)
          /\ \A u \in chat_members[ch] :
                SocketsOf(USER_SOCKETS, u) # {} =>
                   /\ u \in Range(hcall'[r].usernames)
                   /\ hpc'[r] = "bcast"

\* the delete of a dm by one of its members starts a broadcast of
\* chat_deleted that names the members that are left
C36_DmStep ==
    \A r \in Reqs, ch \in AdminChats :
       LeavesDm(r, ch) =>
          /\ hcall'[r].ev = ChatDeleted(ch)
          /\ Range(hcall'[r].usernames) = chat_members'[ch]

\* a broadcast of chat_deleted that has returned has reached every connection
\* of every user it names that was registered during the whole broadcast
C36_PushedState ==
    \A r \in Reqs :
       (hpc[r] = "done" /\ hcall[r].ev.type = "chat_deleted") =>
          \A c \in Throughout(r) :
             wuser[c] \in Range(hcall[r].usernames) => Times(c, hcall[r].ev) > 0

\* C36: the deletion of a group by its creator pushes chat_deleted to every
\* live connection of every user who was a member at the time of deletion,
\* and the delete of a dm by a member pushes chat_deleted to the live
\* connections of the members that are left
C36_ChatDeletedPushed ==
    []C36_PushedState /\ [][C36_GroupStep /\ C36_DmStep]_vars

\* the part about a dm
C36_DmLeave == []C36_PushedState /\ [][C36_DmStep]_vars

\* alice has deleted the group g while a connection of hers and one of bob,
\* a member, were registered: the request has returned and neither was sent
\* anything
C36_GroupWitness ==
    /\ hpc["r1"] = "done"
    /\ hcall["r1"].ev = ChatDeleted("g")
    /\ "g" \notin DOMAIN chats
    /\ hcall["r1"].reg = {"c1", "c3"}
    /\ hcall["r1"].usernames = <<>>
    /\ sent["c1"] = <<>> /\ sent["c3"] = <<>>

\* alice has left the dm and bob's connection was sent chat_deleted
C36_DmWitness ==
    /\ hpc["r1"] = "done"
    /\ hcall["r1"].ev = ChatDeleted(DmChatId)
    /\ chat_members[DmChatId] = {"bob"}
    /\ sent["c3"] = <<ChatDeleted(DmChatId)>>
    /\ sent["c1"] = <<>>

(***************************************************************************)
(* Claims about the read markers                                           *)
(***************************************************************************)
\* the marker of a chat and a user, 0 without a row
MarkerOf(store, chat_id, username) ==
    IF <<chat_id, username>> \in DOMAIN store THEN store[<<chat_id, username>>] ELSE 0

\* no marker is lost or lowered; a marker changes only in the step in which
\* a mark_read of that member for that chat is accepted, and becomes the
\* larger of its value and the last_id of the request
C39_MarkerStep ==
    /\ \A p \in DOMAIN chat_reads :
          p \in DOMAIN chat_reads' /\ chat_reads'[p] >= chat_reads[p]
    /\ \A r \in Reqs :
          (Calls(r) /\ hcall'[r].ev.type = "read") =>
             LET ev == hcall'[r].ev
             IN  /\ is_member(ev.chat_id, ev.username)
                 /\ \A p \in DOMAIN chat_reads' :
                       p # <<ev.chat_id, ev.username>> =>
                          p \in DOMAIN chat_reads /\ chat_reads'[p] = chat_reads[p]
                 /\ MarkerOf(chat_reads', ev.chat_id, ev.username) =
                       Max(MarkerOf(chat_reads, ev.chat_id, ev.username), ev.last_read_id)
    /\ chat_reads' # chat_reads =>
          \E r \in Reqs : Calls(r) /\ hcall'[r].ev.type = "read"

\* mark_read of a user for a chat he is not a member of is refused; no
\* marker and no read event is of a non-member
C39_MemberState ==
    /\ \A u \in Usernames, ch \in PushChats, last_id \in 1 .. MaxRead :
          ~is_member(ch, u) => MarkReadOutcome(u, ch, last_id) = "403 Not a member"
    /\ \A p \in DOMAIN chat_reads : is_member(p[1], p[2])
    /\ \A r \in Reqs :
          hcall[r].ev.type = "read" => is_member(hcall[r].ev.chat_id, hcall[r].ev.username)
    /\ \A c \in DOMAIN sent : \A k \in DOMAIN sent[c] :
          sent[c][k].type = "read" => is_member(sent[c][k].chat_id, sent[c][k].username)

\* C39: the stored read marker of a chat and a user never decreases under
\* any sequence and interleaving of mark_read requests (a request with a
\* smaller last_id leaves the larger value), and mark_read by a non-member
\* changes no marker and broadcasts no read event
C39_MarkerMonotone == []C39_MemberState /\ [][C39_MarkerStep]_vars

\* alice has marked g read up to 2 and up to 1; her marker is 2, and bob's
\* connection was sent both read events
C39_Witness ==
    /\ hcall["r1"].ev = ReadEvent("g", "alice", 2)
    /\ hcall["r2"].ev = ReadEvent("g", "alice", 1)
    /\ hpc["r1"] = "done" /\ hpc["r2"] = "done"
    /\ chat_reads[<<"g", "alice">>] = 2
    /\ sent["c3"] = <<ReadEvent("g", "alice", 2), ReadEvent("g", "alice", 1)>>

\* a request of alice for d, of which she is not a member, is refused while
\* bob has marked d read
C39_NonMemberWitness ==
    /\ MarkReadOutcome("alice", "d", 1) = "403 Not a member"
    /\ chat_reads[<<"d", "bob">>] = 1
    /\ <<"d", "alice">> \notin DOMAIN chat_reads
    /\ hpc["r1"] = "done" /\ hpc["r2"] = "done"

(***************************************************************************)
(* Claims about the owner of a group                                       *)
(***************************************************************************)
Groups == {ch \in DOMAIN chats : chats[ch].type = "group"}

\* every group has its creator as a member with role owner, and a request to
\* delete a group by anyone else is refused
C40_OwnerState ==
    \A ch \in Groups :
       /\ is_member(ch, chats[ch].created_by)
       /\ get_member_role(ch, chats[ch].created_by) = "owner"
       /\ \A u \in ChatUsers :
             u # chats[ch].created_by => DeleteChatOutcome(u, ch) # "200 ok"

\* a group keeps its creator while it exists, and it ceases to exist only in
\* a step that takes every row of it along
C40_OwnerStep ==
    \A ch \in Groups :
       IF ch \in DOMAIN chats'
       THEN chats'[ch] = chats[ch]
       ELSE /\ chat_members'[ch] = {}
            /\ \A p \in DOMAIN member_role' : p[1] # ch

\* C40: every existing group has its creator as a member with role owner: no
\* sequence of invite, role-update, member-removal and delete-chat requests
\* removes the creator or changes the creator's role while the group exists,
\* and only the creator can delete the group
C40_CreatorStaysOwner == []C40_OwnerState /\ [][C40_OwnerStep]_vars

\* bob has been made admin of alice's group g and has created the group n, to
\* which he invited alice: his requests to remove alice from g and to change
\* her role there are refused, as is alice's request to delete n
C40_Witness ==
    /\ get_member_role("g", "bob") = "admin"
    /\ get_member_role("g", "alice") = "owner"
    /\ RemoveOutcome("bob", "g", "alice") = "400 Owner cannot be removed"
    /\ RoleOutcome("bob", "g", "alice", "member") = "403 Only owner can change roles"
    /\ RoleOutcome("alice", "g", "alice", "member") = "400 Cannot change owner role"
    /\ "n" \in Groups /\ chats["n"].created_by = "bob"
    /\ get_member_role("n", "alice") = "member"
    /\ DeleteChatOutcome("alice", "n") = "403 Only creator can delete group"

\* alice has deleted her group g: no row of it is left
C40_DeletedWitness ==
    /\ "g" \notin DOMAIN chats
    /\ chat_members["g"] = {}
    /\ hcall["r1"].ev = Event("chat_deleted", "g", "", 0)

====
